---- MODULE Spec2Model ----
(***************************************************************************)
(* Model of the arena402 paywall access-control and payment-settlement     *)
(* state machine: the x402 middleware (x402PaywallMiddleware and           *)
(* processPayment), the payment record store (recordPayment,               *)
(* settlePayment, failPayment), the access ledger (hasAccess, grantAccess, *)
(* revokeAccess, getBlockAccessStatus) and the paywall services            *)
(* (createPaywall, updatePaywall, deactivatePaywall, deletePaywall,         *)
(* getPaywallsForBlocks) over the relational tables paywalls, payments and *)
(* access_grants; the route POST /paywall/configure with its upstream      *)
(* ownership check; the conversions usdcToAtomic and atomicToUsdc; and the *)
(* singleton of the oracle client, getX402Server.                          *)
(*                                                                         *)
(* Node runs a handler atomically between two awaits, so every step of a   *)
(* request below is one awaited call (a store statement or an oracle call) *)
(* together with the synchronous code that follows it up to the next       *)
(* await.  Requests interleave only at these points.  The store executes   *)
(* every statement atomically and enforces the constraints of the schema;  *)
(* it is assumed available (no connection errors).                         *)
(***************************************************************************)
EXTENDS Integers, Sequences, FiniteSets, TLC

(***************************************************************************)
(* Bounds of the model.                                                    *)
(***************************************************************************)
\* number of HTTP requests started over a behaviour
MaxRequests == 2
\* number of administrative revokeAccess calls over a behaviour with requests
MaxAdminCalls == 1
\* number of grantAccess / revokeAccess calls over a behaviour of the ledger
MaxLedgerCalls == 3
\* number of paywall service calls over a behaviour of the registry
MaxRegistryCalls == 2

\* the two request slots that may be in flight at the same time
Reqs == {"r1", "r2"}

(***************************************************************************)
(* Values.  An address is a sequence of characters, the empty sequence is  *)
(* the absent (falsy) address.                                             *)
(***************************************************************************)
NoAddr == << >>
AddrA == <<"0", "x", "A">>
AddrB == <<"0", "x", "B">>
Recipient == <<"0", "x", "R", "c">>
OtherRecipient == <<"0", "x", "e">>
Unknown == <<"u", "n", "k", "n", "o", "w", "n">>

\* String.prototype.toLowerCase on one character of the alphabet in use
LowerChar(c) ==
  CASE c = "A" -> "a"
    [] c = "B" -> "b"
    [] c = "R" -> "r"
    [] c = "C" -> "c"
    [] c = "E" -> "e"
    [] c = "N" -> "n"
    [] OTHER -> c

toLowerCase(s) == [i \in DOMAIN s |-> LowerChar(s[i])]

\* block ids: 42 carries an active paywall, 41 a deactivated one, 40 none
BlockIds == <<40, 41, 42>>
PlainBlock == BlockIds[1]
FreeBlock == BlockIds[2]
PaidBlock == BlockIds[3]

\* a price is a numeric(10,6) column value: <<whole units, millionths>>
Price50 == <<0, 50000>>
Price10 == <<0, 10000>>

\* usdcToAtomic: (parseFloat(usdc) * 1_000_000).toFixed(0).  For a value of
\* the numeric(10,6) column (below 10^4 with 6 decimals) the double product
\* is within 3e-6 of the integer units*10^6 + millionths, so toFixed(0)
\* yields exactly that integer.
usdcToAtomic(usdc) == usdc[1] * 1000000 + usdc[2]

NullPaywall ==
  [id |-> 0, blockId |-> 0, ownerUserId |-> 0, priceUsdc |-> <<0, 0>>,
   recipientWallet |-> NoAddr, active |-> FALSE]

ActivePaywall ==
  [id |-> 1, blockId |-> PaidBlock, ownerUserId |-> 1, priceUsdc |-> Price50,
   recipientWallet |-> Recipient, active |-> TRUE]

InactivePaywall ==
  [id |-> 2, blockId |-> FreeBlock, ownerUserId |-> 1, priceUsdc |-> Price10,
   recipientWallet |-> Recipient, active |-> FALSE]

(***************************************************************************)
(* Request inputs.                                                         *)
(***************************************************************************)
NoHeader == [kind |-> "none", amount |-> 0, payTo |-> NoAddr, payer |-> NoAddr]
Malformed == [kind |-> "malformed", amount |-> 0, payTo |-> NoAddr, payer |-> NoAddr]
Proof(amount, payTo, payer) ==
  [kind |-> "proof", amount |-> amount, payTo |-> payTo, payer |-> payer]

\* proofs that pass local validation for the paid block: accepted amount
\* 50000, payTo the recipient in some letter case; payload.payer absent or B
GoodProof == Proof(50000, toLowerCase(Recipient), NoAddr)
GoodProofB == Proof(50000, Recipient, AddrB)
\* proofs that fail local validation
WrongAmount == Proof(40000, Recipient, NoAddr)
WrongPayTo == Proof(50000, OtherRecipient, NoAddr)

Request(blockId, wallet, header) ==
  [blockId |-> blockId, wallet |-> wallet, header |-> header]

\* the requests considered: block id, X-Wallet-Address header as sent (any
\* letter case, or absent) and X-Payment header (absent, undecodable, or a
\* decoded payload)
Requests ==
  {Request(PaidBlock, w, h) : w \in {NoAddr, AddrA}, h \in {NoHeader, GoodProofB}}
  \cup {Request(PaidBlock, NoAddr, GoodProof),
         Request(PaidBlock, NoAddr, Malformed), Request(PaidBlock, AddrA, WrongAmount),
         Request(PaidBlock, NoAddr, WrongPayTo),
         Request(FreeBlock, AddrA, GoodProof), Request(PlainBlock, NoAddr, NoHeader)}

(***************************************************************************)
(* Oracle (facilitator) answers.                                           *)
(***************************************************************************)
NoVerify == [kind |-> "none", invalidReason |-> "", payer |-> NoAddr]
VerifyAnswers ==
  {[kind |-> "throw", invalidReason |-> "", payer |-> NoAddr],
   [kind |-> "invalid", invalidReason |-> "", payer |-> NoAddr],
   [kind |-> "invalid", invalidReason |-> "invalid_signature", payer |-> NoAddr],
   [kind |-> "valid", invalidReason |-> "", payer |-> NoAddr],
   [kind |-> "valid", invalidReason |-> "", payer |-> AddrB]}

TxRefs == {"0xTxHash"}

NoSettle == [kind |-> "none", errorReason |-> "", transaction |-> "", payer |-> NoAddr]
SettleAnswers ==
  {[kind |-> "throw", errorReason |-> "", transaction |-> "", payer |-> NoAddr],
   [kind |-> "failure", errorReason |-> "insufficient_funds", transaction |-> "",
    payer |-> NoAddr]}
  \cup {[kind |-> "success", errorReason |-> "", transaction |-> t, payer |-> p] :
          t \in TxRefs, p \in {NoAddr, AddrB}}

OracleError == "facilitator request failed"
UniqueViolation == "duplicate key value violates unique constraint unique_block_payer"

(***************************************************************************)
(* Prices as text, wallet address format, users.                           *)
(***************************************************************************)
\* a price as the caller sends it: a string, here a sequence of characters;
\* the empty sequence is the absent (undefined) price
NoText == << >>
MIN_PRICE_USDC == <<"0", ".", "0", "1">>
PriceTexts ==
  {<<"0", ".", "0", "5">>, MIN_PRICE_USDC, <<"0", ".", "0", "0", "9">>,
   <<"N", "a", "N">>, <<"a", "b", "c">>}

Digits == <<"0", "1", "2", "3", "4", "5", "6", "7", "8", "9">>
IsDigit(c) == \E i \in DOMAIN Digits : Digits[i] = c
DigitValue(c) == (CHOOSE i \in DOMAIN Digits : Digits[i] = c) - 1

\* length of the longest prefix of s made of decimal digits
LeadingDigits(s) ==
  CHOOSE n \in 0..Len(s) :
    /\ \A i \in 1..n : IsDigit(s[i])
    /\ n = Len(s) \/ ~ IsDigit(s[n + 1])

RECURSIVE DigitsValue(_)
DigitsValue(s) ==
  IF s = << >> THEN 0
  ELSE DigitsValue(SubSeq(s, 1, Len(s) - 1)) * 10 + DigitValue(s[Len(s)])

RECURSIVE Pow10(_)
Pow10(n) == IF n = 0 THEN 1 ELSE 10 * Pow10(n - 1)

\* decimal places of the numeric(10,6) column
PriceScale == 6

\* the number a text denotes up to its first character that does not belong
\* to digits[.digits], in millionths (the texts in use carry no sign, no
\* exponent and at most PriceScale decimals); ok is false without any digit
DecimalPrefix(s) ==
  LET n == LeadingDigits(s)
      rest == SubSeq(s, n + 1, Len(s))
      frac == IF rest # << >> /\ rest[1] = "." THEN SubSeq(rest, 2, Len(rest)) ELSE << >>
      m == LeadingDigits(frac)
      used == IF m > 0 \/ (n > 0 /\ rest # << >> /\ rest[1] = ".") THEN n + 1 + m ELSE n
  IN [ok |-> n + m > 0,
      whole |-> used = Len(s),
      micros |-> DigitsValue(SubSeq(s, 1, n)) * Pow10(PriceScale)
                   + DigitsValue(SubSeq(frac, 1, m)) * Pow10(PriceScale - m)]

\* parseFloat: the number of the longest numeric prefix, NaN when there is none
parseFloat(s) ==
  LET d == DecimalPrefix(s)
  IN IF d.ok THEN [nan |-> FALSE, micros |-> d.micros] ELSE [nan |-> TRUE, micros |-> 0]

\* x < y on doubles: false whenever an operand is NaN.  Two decimals of at
\* most PriceScale places are ordered as their nearest doubles are.
LessThan(x, y) == ~ x.nan /\ ~ y.nan /\ x.micros < y.micros

\* parseFloat(priceUsdc) < parseFloat(MIN_PRICE_USDC)
BelowMinimum(priceUsdc) == LessThan(parseFloat(priceUsdc), parseFloat(MIN_PRICE_USDC))

\* values of the numeric(10,6) column price_usdc: <<whole units, millionths>>,
\* or the special value NaN, which numeric columns accept
NaNPrice == << >>
InvalidNumeric == <<"invalid input syntax for type numeric">>

\* the store's conversion of a text parameter to numeric(10,6): the whole text
\* must be a number, or NaN in any letter case
CastNumeric(s) ==
  LET d == DecimalPrefix(s)
  IN IF toLowerCase(s) = <<"n", "a", "n">> THEN NaNPrice
     ELSE IF d.ok /\ d.whole
          THEN <<d.micros \div Pow10(PriceScale), d.micros % Pow10(PriceScale)>>
     ELSE InvalidNumeric

\* number of hex digits of an address
AddressHexDigits == 40

HexChars ==
  {"0", "1", "2", "3", "4", "5", "6", "7", "8", "9",
   "a", "b", "c", "d", "e", "f", "A", "B", "C", "D", "E", "F"}

\* isValidEthereumAddress: /^0x[a-fA-F0-9]{40}$/
isValidEthereumAddress(address) ==
  /\ Len(address) = 2 + AddressHexDigits
  /\ address[1] = "0" /\ address[2] = "x"
  /\ \A i \in 3..Len(address) : address[i] \in HexChars

\* a well-formed address made of one hex digit
HexWallet(c) == <<"0", "x">> \o [i \in 1..AddressHexDigits |-> c]

\* users: 1 owns the paywalls and has a wallet address, 2 has none
UserIds == {1, 2}
userWalletAddress(userId) == IF userId = 1 THEN HexWallet("E") ELSE NoAddr

(***************************************************************************)
(* State.                                                                  *)
(***************************************************************************)
VARIABLES
  paywalls,      \* table paywalls: set of rows
  payments,      \* table payments: sequence of rows, the id is the index
  accessGrants,  \* table access_grants: set of rows
  nextGrantId,   \* next primary key of access_grants
  reqs,          \* per request slot: position and locals of the handler
  adm,           \* the administrative caller of grantAccess / revokeAccess
  started,       \* number of requests started
  adminCalls,    \* number of administrative calls started
  nextPaywallId, \* next primary key of paywalls
  calls,         \* per caller of the paywall services: position and locals
  regCalls,      \* number of paywall service calls started
  lookup,        \* the caller of getPaywallsForBlocks: position and locals
  conv,          \* the caller of usdcToAtomic / atomicToUsdc: position and values
  x402           \* the x402 server singleton and the callers of getX402Server

\* the state of the callers of the paywall services
regVars == <<nextPaywallId, calls, regCalls>>

\* the state of the callers of the library functions
libVars == <<lookup, conv, x402>>

vars ==
  <<paywalls, payments, accessGrants, nextGrantId, reqs, adm, started, adminCalls,
    nextPaywallId, calls, regCalls, libVars>>

NoResult == [success |-> FALSE, paymentId |-> 0, txHash |-> "", payer |-> NoAddr,
             error |-> ""]

IdleReq ==
  [pc |-> "idle", blockId |-> 0, wallet |-> NoAddr, header |-> NoHeader,
   paywall |-> NullPaywall, walletAddress |-> NoAddr, hasAccessResult |-> FALSE,
   paymentId |-> 0, payerWallet |-> NoAddr, actualPayer |-> NoAddr,
   verifyResult |-> NoVerify, settleResult |-> NoSettle,
   verifyCalls |-> 0, settleCalls |-> 0,
   grant |-> "none", error |-> "", trace |-> << >>,
   result |-> NoResult, outcome |-> "none",
   paidBefore |-> FALSE, payerGranted |-> FALSE]

NullGrant == [id |-> 0, blockId |-> 0, payerWallet |-> NoAddr, paymentId |-> 0]

\* no earlier grantAccess call
NoCall ==
  [blockId |-> 0, wallet |-> NoAddr, paymentId |-> 0, ret |-> "none", row |-> NullGrant]

\* row is the record a grantAccess call returned; prev is the grantAccess call
\* that came immediately before this call, kept for the properties
IdleAdm ==
  [pc |-> "idle", op |-> "none", blockId |-> 0, wallet |-> NoAddr, paymentId |-> 0,
   ret |-> "none", row |-> NullGrant, prev |-> NoCall]

\* the two callers of the paywall services that may be active at a time
Callers == {"c1", "c2"}

NoStatus ==
  [isPaywalled |-> FALSE, hasAccess |-> FALSE, priceUsdc |-> NaNPrice,
   recipientWallet |-> NoAddr]

IdleCall ==
  [pc |-> "idle", op |-> "none", blockId |-> 0, ownerUserId |-> 0,
   priceUsdc |-> NoText, recipientWallet |-> NoAddr, walletAddress |-> NoAddr,
   existing |-> NullPaywall, code |-> "", status |-> NoStatus,
   upstream |-> "none"]

IdleLookup ==
  [pc |-> "idle", blockIds |-> << >>, i |-> 0, reads |-> 0, results |-> {},
   paywallMap |-> {}]

\* usdc is the price text converted, product the double handed to toFixed(0),
\* atomic the result of usdcToAtomic and back the result of atomicToUsdc
IdleConv ==
  [pc |-> "idle", usdc |-> NoText, product |-> [nan |-> FALSE, int |-> 0, off |-> 0],
   atomic |-> NoText, back |-> NoText]

\* the callers of getX402Server: the module itself when it is loaded, and
\* two request handlers
ServerCallers == {"load", "h1", "h2"}

\* received: what the caller got back from its last call that returned
IdleServerCaller == [pc |-> "idle", received |-> "none"]

\* module state before the module's own call of getX402Server: x402Server
\* and initializationPromise are null, nothing was constructed; initialized
\* tells whether x402Server.initialize() has completed
NoServer ==
  [x402Server |-> "null", initializationPromise |-> "null", initialized |-> FALSE,
   constructed |-> 0, serverCalls |-> 0,
   callers |-> [c \in ServerCallers |-> IdleServerCaller]]

\* no request, no administrative call, no service call, no lookup
NoServiceCallers ==
  /\ x402 = NoServer
  /\ lookup = IdleLookup
  /\ reqs = [r \in Reqs |-> IdleReq]
  /\ adm = IdleAdm
  /\ started = 0
  /\ adminCalls = 0
  /\ calls = [c \in Callers |-> IdleCall]
  /\ regCalls = 0

\* nobody is calling
NoCallers == NoServiceCallers /\ conv = IdleConv

Init ==
  /\ paywalls = {ActivePaywall, InactivePaywall}
  /\ payments = << >>
  /\ accessGrants = {}
  /\ nextGrantId = 1
  /\ nextPaywallId = 3
  /\ NoCallers

(***************************************************************************)
(* Store statements and pure helpers.                                      *)
(***************************************************************************)
\* getPaywallByBlockId: the row of the block, or null
getPaywallByBlockId(pws, blockId) ==
  IF \E p \in pws : p.blockId = blockId
  THEN CHOOSE p \in pws : p.blockId = blockId
  ELSE NullPaywall

\* getWalletFromRequest: the supplied address lowercased, or undefined
getWalletFromRequest(wallet) ==
  IF wallet # NoAddr THEN toLowerCase(wallet) ELSE NoAddr

\* variant: the select compares the address as it was passed
selectGrants_caseSensitive(grants, blockId, walletAddress) ==
  {g \in grants : g.blockId = blockId /\ g.payerWallet = walletAddress}

\* the select of hasAccess and grantAccess: rows of the pair
selectGrants(grants, blockId, walletAddress) ==
  {g \in grants : g.blockId = blockId /\ g.payerWallet = toLowerCase(walletAddress)}

\* variant: the wallet filter of the select is missing
hasAccess_anyWallet(grants, blockId, walletAddress) ==
  \E g \in grants : g.blockId = blockId

hasAccess(grants, blockId, walletAddress) ==
  IF walletAddress = NoAddr THEN FALSE
  ELSE selectGrants(grants, blockId, walletAddress) # {}

\* variant: the table has no unique constraint
unique_block_payer_absent(grants, row) == TRUE

\* constraint unique_block_payer of access_grants: may the row be inserted
unique_block_payer(grants, row) ==
  ~ \E g \in grants : g.blockId = row.blockId /\ g.payerWallet = row.payerWallet

\* variant: the address is stored as it was passed
newGrant_asGiven(id, blockId, walletAddress, paymentId) ==
  [id |-> id, blockId |-> blockId, payerWallet |-> walletAddress,
   paymentId |-> paymentId]

\* the row grantAccess inserts
newGrant(id, blockId, walletAddress, paymentId) ==
  [id |-> id, blockId |-> blockId, payerWallet |-> toLowerCase(walletAddress),
   paymentId |-> paymentId]

\* variant: the insert is not executed
recordPayment_noInsert(pays, paywallId, payerWallet, amountUsdc) == pays

\* recordPayment: insert a pending row, its id is the next index
recordPayment(pays, paywallId, payerWallet, amountUsdc) ==
  Append(pays, [paywallId |-> paywallId, payerWallet |-> toLowerCase(payerWallet),
                amountUsdc |-> amountUsdc, txHash |-> "", status |-> "pending",
                settledAt |-> 0])

\* variant: the transaction is stored, the status is not
settlePayment_statusKept(pays, paymentId, txHash) ==
  [i \in DOMAIN pays |->
     IF i = paymentId THEN [pays[i] EXCEPT !.txHash = txHash, !.settledAt = 1]
     ELSE pays[i]]

\* settlePayment: update ... set status, txHash, settledAt where id = paymentId
settlePayment(pays, paymentId, txHash) ==
  [i \in DOMAIN pays |->
     IF i = paymentId
     THEN [pays[i] EXCEPT !.status = "settled", !.txHash = txHash, !.settledAt = 1]
     ELSE pays[i]]

\* variant: the update is not executed
failPayment_skip(pays, paymentId) == pays

\* failPayment: update ... set status = failed where id = paymentId
failPayment(pays, paymentId) ==
  [i \in DOMAIN pays |->
     IF i = paymentId THEN [pays[i] EXCEPT !.status = "failed"] ELSE pays[i]]

\* a || b on addresses
Or(a, b) == IF a # NoAddr THEN a ELSE b

\* variant: the accepted amount is not compared
validateProof_noAmountCheck(header, paywall) ==
  IF header.kind = "malformed" THEN "Invalid payment header format"
  ELSE IF toLowerCase(header.payTo) # toLowerCase(paywall.recipientWallet)
       THEN "Payment recipient mismatch"
  ELSE ""

\* local validation of processPayment: "" when the proof passes, else the error
validateProof(header, paywall) ==
  IF header.kind = "malformed" THEN "Invalid payment header format"
  ELSE IF header.amount # usdcToAtomic(paywall.priceUsdc)
       THEN "Payment amount mismatch"
  ELSE IF toLowerCase(header.payTo) # toLowerCase(paywall.recipientWallet)
       THEN "Payment recipient mismatch"
  ELSE ""

Failure(err) == [NoResult EXCEPT !.error = err]

\* variant: result.success is not looked at
answerFor_alwaysNext(result) == "next"

\* the middleware's answer to the result of processPayment
answerFor(result) == IF result.success THEN "next" ELSE "400"

(***************************************************************************)
(* x402PaywallMiddleware and processPayment, one action per awaited call.  *)
(***************************************************************************)
\* after the access check: 402 without a payment header, else processPayment
afterAccessCheck(q) ==
  IF q.header.kind = "none"
  THEN [q EXCEPT !.pc = "done", !.outcome = "402"]
  ELSE [q EXCEPT !.pc = "recordPayment"]

\* history of a request, taken when it arrives and read by properties only:
\* an earlier request of the other slot has returned success for the same
\* block and the same supplied wallet address
PaidBefore(r, blockId, wa) ==
  /\ wa # NoAddr
  /\ \E o \in Reqs \ {r} :
       /\ reqs[o].pc = "done" /\ reqs[o].result.success
       /\ reqs[o].blockId = blockId /\ reqs[o].walletAddress = wa

\* history of a request, taken when it arrives and read by properties only:
\* the request carries a proof, and the payer address its PaymentRecord will
\* name (walletAddress || payload.payer || "unknown") already holds a grant
PayerGranted(in, wa) ==
  /\ in.header.kind = "proof"
  /\ hasAccess(accessGrants, in.blockId, Or(wa, Or(in.header.payer, Unknown)))

\* variant: a deactivated paywall still charges
noActivePaywall_nullOnly(paywall) == paywall = NullPaywall

\* if (!paywall || !paywall.active) return next()
noActivePaywall(paywall) == paywall = NullPaywall \/ ~ paywall.active

\* a request arrives: await getPaywallByBlockId(blockId), then
\* getWalletFromRequest.  The slots are interchangeable, so r2 is used only
\* while r1 is taken.
MwGetPaywall(r) ==
  /\ reqs[r].pc \in {"idle", "done"}
  /\ r = "r2" => reqs["r1"].pc # "idle"
  /\ started < MaxRequests
  /\ \E in \in Requests :
       LET q == [IdleReq EXCEPT !.blockId = in.blockId, !.wallet = in.wallet,
                                !.header = in.header]
           pw == getPaywallByBlockId(paywalls, in.blockId)
           wa == getWalletFromRequest(in.wallet)
           q1 == [q EXCEPT !.paywall = pw, !.walletAddress = wa,
                           !.paidBefore = PaidBefore(r, in.blockId, wa),
                           !.payerGranted = PayerGranted(in, wa)]
       IN reqs' = [reqs EXCEPT ![r] =
                     IF noActivePaywall(pw)
                     THEN [q1 EXCEPT !.pc = "done", !.outcome = "next"]
                     ELSE IF wa # NoAddr
                          THEN [q1 EXCEPT !.pc = "hasAccess"]
                          ELSE afterAccessCheck(q1)]
  /\ started' = started + 1
  /\ UNCHANGED <<libVars, regVars, paywalls, payments, accessGrants, nextGrantId, adm, adminCalls>>

\* await hasAccess(blockId, walletAddress)
MwHasAccess(r) ==
  /\ reqs[r].pc = "hasAccess"
  /\ LET q == reqs[r]
         res == hasAccess(accessGrants, q.blockId, q.walletAddress)
     IN reqs' = [reqs EXCEPT ![r] =
                   IF res
                   THEN [q EXCEPT !.pc = "done", !.outcome = "next",
                                  !.hasAccessResult = TRUE]
                   ELSE afterAccessCheck(q)]
  /\ UNCHANGED <<libVars, regVars, paywalls, payments, accessGrants, nextGrantId, adm, started, adminCalls>>

\* variant: the payer named in the proof comes first
payerWalletFor_proofFirst(walletAddress, header) ==
  Or(header.payer, Or(walletAddress, Unknown))

\* const payerWallet = walletAddress || paymentPayload.payload?.payer || "unknown"
payerWalletFor(walletAddress, header) ==
  Or(walletAddress, Or(header.payer, Unknown))

\* processPayment up to and including await recordPayment(...)
PpRecordPayment(r) ==
  /\ reqs[r].pc = "recordPayment"
  /\ LET q == reqs[r]
         err == validateProof(q.header, q.paywall)
         payerWallet == payerWalletFor(q.walletAddress, q.header)
     IN IF err # ""
        THEN /\ reqs' = [reqs EXCEPT ![r] =
                           [q EXCEPT !.pc = "done", !.result = Failure(err),
                                     !.outcome = answerFor(Failure(err))]]
             /\ UNCHANGED payments
        ELSE /\ payments' = recordPayment(payments, q.paywall.id, payerWallet,
                                          q.paywall.priceUsdc)
             /\ reqs' = [reqs EXCEPT ![r] =
                           [q EXCEPT !.pc = "verify", !.payerWallet = payerWallet,
                                     !.paymentId = Len(payments'),
                                     !.trace = Append(@, "recordPayment")]]
  /\ UNCHANGED <<libVars, regVars, paywalls, accessGrants, nextGrantId, adm, started, adminCalls>>

\* variant: the oracle's reason is dropped
verifyError_generic(verifyResult) == "Payment verification failed"

\* verifyResult.invalidReason || "Payment verification failed"
verifyError(verifyResult) ==
  IF verifyResult.invalidReason # "" THEN verifyResult.invalidReason
  ELSE "Payment verification failed"

\* variant: a call the oracle failed or turned down is made again
afterOracleFailure_retry(call) == call

\* where processPayment goes when the oracle call threw (catch block) or
\* was turned down (the branches after the call): to failPayment, and then
\* it returns the failure
afterOracleFailure(call) == "failPayment"

\* await server.verifyPayment(paymentPayload, acceptedRequirements)
PpVerify(r) ==
  /\ reqs[r].pc = "verify"
  /\ \E v \in VerifyAnswers :
       LET q == [reqs[r] EXCEPT !.verifyResult = v, !.verifyCalls = @ + 1,
                                !.trace = Append(@, "verifyPayment")]
       IN reqs' = [reqs EXCEPT ![r] =
                     CASE v.kind = "throw" ->
                            [q EXCEPT !.pc = afterOracleFailure("verify"),
                                      !.error = OracleError]
                       [] v.kind = "invalid" ->
                            [q EXCEPT !.pc = afterOracleFailure("verify"),
                                      !.error = verifyError(v)]
                       [] OTHER -> [q EXCEPT !.pc = "settle"]]
  /\ UNCHANGED <<libVars, regVars, paywalls, payments, accessGrants, nextGrantId, adm, started, adminCalls>>

\* settleResult.payer || verifyResult.payer || payerWallet
actualPayer(settleResult, verifyResult, payerWallet) ==
  Or(settleResult.payer, Or(verifyResult.payer, payerWallet))

\* await server.settlePayment(paymentPayload, acceptedRequirements).  The
\* payer fields of the two oracle answers are read only by the expression
\* for actualPayer; it is evaluated when the settle answer arrives and the
\* request keeps its value instead of the two payer fields.
PpSettle(r) ==
  /\ reqs[r].pc = "settle"
  /\ \E s \in SettleAnswers :
       LET q0 == reqs[r]
           q == [q0 EXCEPT !.settleResult = [s EXCEPT !.payer = NoAddr],
                           !.verifyResult = [@ EXCEPT !.payer = NoAddr],
                           !.settleCalls = @ + 1,
                           !.trace = Append(@, "settlePayment")]
       IN reqs' = [reqs EXCEPT ![r] =
                     CASE s.kind = "throw" ->
                            [q EXCEPT !.pc = afterOracleFailure("settle"),
                                      !.error = OracleError]
                       [] s.kind = "failure" ->
                            [q EXCEPT !.pc = afterOracleFailure("settle"),
                                      !.error = IF s.errorReason # ""
                                                THEN s.errorReason
                                                ELSE "Payment settlement failed"]
                       [] OTHER ->
                            [q EXCEPT !.pc = "settlePayment",
                                      !.actualPayer =
                                         actualPayer(s, q0.verifyResult, q0.payerWallet)]]
  /\ UNCHANGED <<libVars, regVars, paywalls, payments, accessGrants, nextGrantId, adm, started, adminCalls>>

\* await server.verifyPayment(...) or await server.settlePayment(...) when
\* the oracle never answers: the call is made without a timeout, the promise
\* stays pending and the handler never runs again
PpOracleHang(r) ==
  /\ reqs[r].pc \in {"verify", "settle"}
  /\ reqs' = [reqs EXCEPT ![r] =
                IF reqs[r].pc = "verify"
                THEN [@ EXCEPT !.pc = "hung", !.verifyCalls = @ + 1,
                               !.trace = Append(@, "verifyPayment")]
                ELSE [@ EXCEPT !.pc = "hung", !.settleCalls = @ + 1,
                               !.trace = Append(@, "settlePayment")]]
  /\ UNCHANGED <<libVars, regVars, paywalls, payments, accessGrants, nextGrantId, adm, started, adminCalls>>

\* await failPayment(payment.id, reason), then return the failure
PpFailPayment(r) ==
  /\ reqs[r].pc = "failPayment"
  /\ LET q == reqs[r]
     IN /\ payments' = failPayment(payments, q.paymentId)
        /\ reqs' = [reqs EXCEPT ![r] =
                      [q EXCEPT !.pc = "done", !.result = Failure(q.error),
                                !.outcome = answerFor(Failure(q.error)),
                                !.trace = Append(@, "markFailed")]]
  /\ UNCHANGED <<libVars, regVars, paywalls, accessGrants, nextGrantId, adm, started, adminCalls>>

\* await settlePayment(payment.id, settleResult.transaction)
PpSettlePayment(r) ==
  /\ reqs[r].pc = "settlePayment"
  /\ LET q == reqs[r]
     IN /\ payments' = settlePayment(payments, q.paymentId, q.settleResult.transaction)
        /\ reqs' = [reqs EXCEPT ![r] =
                      [q EXCEPT !.pc = "grantSelect",
                                !.trace = Append(@, "markSettled")]]
  /\ UNCHANGED <<libVars, regVars, paywalls, accessGrants, nextGrantId, adm, started, adminCalls>>

\* the success result of processPayment
Success(q) ==
  [success |-> TRUE, paymentId |-> q.paymentId,
   txHash |-> q.settleResult.transaction, payer |-> q.actualPayer, error |-> ""]

\* grantAccess, the select: return the existing row or go on to the insert
PpGrantSelect(r) ==
  /\ reqs[r].pc = "grantSelect"
  /\ LET q == reqs[r]
         existing == selectGrants(accessGrants, q.blockId, q.actualPayer)
     IN reqs' = [reqs EXCEPT ![r] =
                   IF existing # {}
                   THEN [q EXCEPT !.pc = "done", !.grant = "existing",
                                  !.result = Success(q),
                                  !.outcome = answerFor(Success(q)),
                                  !.trace = Append(@, "grantAccess")]
                   ELSE [q EXCEPT !.pc = "grantInsert"]]
  /\ UNCHANGED <<libVars, regVars, paywalls, payments, accessGrants, nextGrantId, adm, started, adminCalls>>

\* grantAccess, the insert: the store rejects a second row of the pair and
\* the error lands in the catch block of processPayment
PpGrantInsert(r) ==
  /\ reqs[r].pc = "grantInsert"
  /\ LET q == reqs[r]
         row == newGrant(nextGrantId, q.blockId, q.actualPayer, q.paymentId)
     IN IF unique_block_payer(accessGrants, row)
        THEN /\ accessGrants' = accessGrants \cup {row}
             /\ nextGrantId' = nextGrantId + 1
             /\ reqs' = [reqs EXCEPT ![r] =
                           [q EXCEPT !.pc = "done", !.grant = "created",
                                     !.result = Success(q),
                                     !.outcome = answerFor(Success(q)),
                                     !.trace = Append(@, "grantAccess")]]
        ELSE /\ UNCHANGED <<accessGrants, nextGrantId>>
             /\ reqs' = [reqs EXCEPT ![r] =
                           [q EXCEPT !.pc = "failPayment", !.grant = "threw",
                                     !.error = UniqueViolation]]
  /\ UNCHANGED <<libVars, regVars, paywalls, payments, adm, started, adminCalls>>

(***************************************************************************)
(* Administrative calls of the access ledger.                              *)
(***************************************************************************)
AdmWallets == {AddrA}

\* the addresses and payment ids the ledger's callers pass: one address in two
\* letter cases and another one; no payment (null) or one of two payments
LedgerWallets == {AddrA, toLowerCase(AddrA), AddrB}
LedgerPaymentIds == {0, 1, 2}

\* the finished grantAccess call of the caller, or NoCall
LastGrantCall ==
  IF adm.pc = "done" /\ adm.op = "grant"
  THEN [blockId |-> adm.blockId, wallet |-> adm.wallet, paymentId |-> adm.paymentId,
        ret |-> adm.ret, row |-> adm.row]
  ELSE NoCall

\* a call of grantAccess(blockId, walletAddress, paymentId) begins
AdmGrantCall ==
  /\ adm.pc \in {"idle", "done"}
  /\ adminCalls < MaxLedgerCalls
  /\ \E b \in {PaidBlock}, w \in LedgerWallets, p \in LedgerPaymentIds :
       adm' = [IdleAdm EXCEPT !.pc = "grantSelect", !.op = "grant",
                              !.blockId = b, !.wallet = w, !.paymentId = p,
                              !.prev = LastGrantCall]
  /\ adminCalls' = adminCalls + 1
  /\ UNCHANGED <<libVars, regVars, paywalls, payments, accessGrants, nextGrantId, reqs, started>>

\* grantAccess, the select: return existing[0] or go on to the insert
AdmGrantSelect ==
  /\ adm.pc = "grantSelect"
  /\ LET existing == selectGrants(accessGrants, adm.blockId, adm.wallet)
     IN adm' = IF existing # {}
               THEN [adm EXCEPT !.pc = "done", !.ret = "existing",
                                !.row = CHOOSE g \in existing : TRUE]
               ELSE [adm EXCEPT !.pc = "grantInsert"]
  /\ UNCHANGED <<libVars, regVars, paywalls, payments, accessGrants, nextGrantId, reqs, started, adminCalls>>

\* grantAccess, the insert ... returning
AdmGrantInsert ==
  /\ adm.pc = "grantInsert"
  /\ LET row == newGrant(nextGrantId, adm.blockId, adm.wallet, adm.paymentId)
     IN IF unique_block_payer(accessGrants, row)
        THEN /\ accessGrants' = accessGrants \cup {row}
             /\ nextGrantId' = nextGrantId + 1
             /\ adm' = [adm EXCEPT !.pc = "done", !.ret = "created", !.row = row]
        ELSE /\ UNCHANGED <<accessGrants, nextGrantId>>
             /\ adm' = [adm EXCEPT !.pc = "done", !.ret = "threw"]
  /\ UNCHANGED <<libVars, regVars, paywalls, payments, reqs, started, adminCalls>>

\* variant: the call reports a removal whatever was deleted
revokeResult_alwaysTrue(rows) == "true"

\* what revokeAccess returns for the rows the delete returned:
\* result.length > 0
revokeResult(rows) == IF rows # {} THEN "true" ELSE "false"

\* revokeAccess(blockId, walletAddress): delete ... returning, for a caller
\* that makes at most limit calls with an address of wallets
revokeAccess(limit, wallets) ==
  /\ adm.pc \in {"idle", "done"}
  /\ adminCalls < limit
  /\ \E b \in {PaidBlock}, w \in wallets :
       LET rows == selectGrants(accessGrants, b, w)
       IN /\ accessGrants' = accessGrants \ rows
          /\ adm' = [IdleAdm EXCEPT !.pc = "done", !.op = "revoke", !.blockId = b,
                                    !.wallet = w,
                                    !.ret = revokeResult(rows)]
  /\ adminCalls' = adminCalls + 1
  /\ UNCHANGED <<libVars, regVars, paywalls, payments, nextGrantId, reqs, started>>

\* a revocation while requests are handled
AdmRevoke == revokeAccess(MaxAdminCalls, AdmWallets)

\* a revocation by the ledger's caller
LedgerRevoke == revokeAccess(MaxLedgerCalls, LedgerWallets)

\* a settled payment of the paid block, as the request handling leaves it
SettledPayment(payer) ==
  [paywallId |-> ActivePaywall.id, payerWallet |-> toLowerCase(payer),
   amountUsdc |-> ActivePaywall.priceUsdc, txHash |-> "0xTxHash",
   status |-> "settled", settledAt |-> 1]

(***************************************************************************)
(* Paywall services: createPaywall, updatePaywall, deactivatePaywall,      *)
(* deletePaywall and getBlockAccessStatus, one action per awaited store    *)
(* statement.  The users table is not written here, so the read of the     *)
(* owner's wallet address is taken together with the statement after it.   *)
(***************************************************************************)
Call(op, blockId, ownerUserId, priceUsdc, recipientWallet, walletAddress) ==
  [op |-> op, blockId |-> blockId, ownerUserId |-> ownerUserId,
   priceUsdc |-> priceUsdc, recipientWallet |-> recipientWallet,
   walletAddress |-> walletAddress]

\* the calls considered.  Block 40 has no paywall, 41 a deactivated one and 42
\* an active one that a payment refers to; user 1 owns both.
RegistryCalls ==
  {Call("create", PlainBlock, 1, p, NoAddr, NoAddr) : p \in PriceTexts}
  \cup {Call("create", PlainBlock, 2, MIN_PRICE_USDC, NoAddr, NoAddr),
         Call("create", PlainBlock, 2, MIN_PRICE_USDC, HexWallet("b"), NoAddr),
         Call("create", PlainBlock, 1, MIN_PRICE_USDC, OtherRecipient, NoAddr),
         Call("create", FreeBlock, 1, MIN_PRICE_USDC, NoAddr, NoAddr)}
  \cup {Call("update", FreeBlock, 1, p, NoAddr, NoAddr) : p \in PriceTexts}
  \cup {Call("update", FreeBlock, 2, MIN_PRICE_USDC, NoAddr, NoAddr),
         Call("update", PlainBlock, 1, MIN_PRICE_USDC, NoAddr, NoAddr),
         Call("update", PaidBlock, 1, MIN_PRICE_USDC, NoAddr, NoAddr),
         Call("update", PaidBlock, 1, NoText, HexWallet("b"), NoAddr),
         Call("update", PaidBlock, 1, NoText, OtherRecipient, NoAddr)}
  \cup {Call("deactivate", b, u, NoText, NoAddr, NoAddr) :
          b \in {PlainBlock, PaidBlock}, u \in UserIds}
  \cup {Call("delete", b, u, NoText, NoAddr, NoAddr) :
          b \in {PlainBlock, FreeBlock, PaidBlock}, u \in UserIds}
  \cup {Call("status", b, 0, NoText, NoAddr, w) :
          b \in {PlainBlock, FreeBlock, PaidBlock}, w \in {NoAddr, AddrA, AddrB}}

\* errors of the store
InvalidNumericError == "invalid input syntax for type numeric"
BlockIdUniqueViolation == "duplicate key value violates unique constraint paywalls_block_id_unique"
PaywallFkViolation == "violates foreign key constraint payments_paywall_id_paywalls_id_fk"
StoreErrors == {InvalidNumericError, BlockIdUniqueViolation, PaywallFkViolation}

\* the status the routes answer with for the outcome of a service call
httpStatus(code) ==
  CASE code = "" -> 200
    [] code \in {"FORBIDDEN", "NOT_OWNER", "Forbidden"} -> 403
    [] code = "Unauthorized" -> 401
    [] code = "NOT_FOUND" -> 404
    [] code \in StoreErrors -> 500
    [] OTHER -> 400

\* variant: the table has no unique constraint on block_id
paywalls_block_id_unique_absent(pws, row) == TRUE

\* constraint paywalls_block_id_unique: may the row be inserted
paywalls_block_id_unique(pws, row) == ~ \E p \in pws : p.blockId = row.blockId

\* constraint payments_paywall_id_paywalls_id_fk, ON DELETE no action: may the
\* rows be deleted
payments_paywall_id_paywalls_id_fk(pays, rows) ==
  ~ \E i \in DOMAIN pays : \E p \in rows : pays[i].paywallId = p.id

\* variant: the owner is not compared
ownershipError_anyOwner(existing, ownerUserId) ==
  IF existing = NullPaywall THEN "NOT_FOUND" ELSE ""

\* the check at the head of updatePaywall, deactivatePaywall and deletePaywall
ownershipError(existing, ownerUserId) ==
  IF existing = NullPaywall THEN "NOT_FOUND"
  ELSE IF existing.ownerUserId # ownerUserId THEN "FORBIDDEN"
  ELSE ""

\* a caller may start a call; the callers are interchangeable, so c2 is used
\* only while c1 is busy
CallStarts(c) ==
  /\ calls[c].pc \in {"idle", "done"}
  /\ c = "c2" => calls["c1"].pc \notin {"idle", "done"}
  /\ regCalls < MaxRegistryCalls

\* the caller's locals when the call begins
Begin(in) ==
  [IdleCall EXCEPT !.op = in.op, !.blockId = in.blockId,
                   !.ownerUserId = in.ownerUserId, !.priceUsdc = in.priceUsdc,
                   !.recipientWallet = in.recipientWallet,
                   !.walletAddress = in.walletAddress]

\* the call throws or returns
Return(q, code) == [q EXCEPT !.pc = "done", !.code = code]

\* what the request handling, the ledger and the store leave to the services
nonRegistryVars ==
  <<payments, accessGrants, nextGrantId, reqs, adm, started, adminCalls, libVars>>

\* createPaywall up to and including await getPaywallByBlockId(blockId)
createPaywallHead(q) ==
  LET finalRecipientWallet == Or(q.recipientWallet, userWalletAddress(q.ownerUserId))
      existing == getPaywallByBlockId(paywalls, q.blockId)
      q1 == [q EXCEPT !.recipientWallet = finalRecipientWallet, !.existing = existing]
  IN IF BelowMinimum(q.priceUsdc) THEN Return(q, "INVALID_PRICE")
     ELSE IF finalRecipientWallet = NoAddr THEN Return(q, "NO_WALLET")
     ELSE IF ~ isValidEthereumAddress(finalRecipientWallet)
          THEN Return(q, "INVALID_WALLET")
     ELSE IF existing # NullPaywall THEN Return(q1, "ALREADY_EXISTS")
     ELSE [q1 EXCEPT !.pc = "createInsert"]

\* a caller calls createPaywall
createPaywall(c) ==
  /\ CallStarts(c)
  /\ \E in \in RegistryCalls :
       /\ in.op = "create"
       /\ calls' = [calls EXCEPT ![c] = createPaywallHead(Begin(in))]
  /\ regCalls' = regCalls + 1
  /\ UNCHANGED <<paywalls, nextPaywallId, nonRegistryVars>>

\* createPaywall: await db.insert(paywalls).values(newPaywall).returning()
createPaywallInsert(c) ==
  /\ calls[c].pc = "createInsert"
  /\ LET q == calls[c]
         row == [id |-> nextPaywallId, blockId |-> q.blockId,
                 ownerUserId |-> q.ownerUserId, priceUsdc |-> CastNumeric(q.priceUsdc),
                 recipientWallet |-> q.recipientWallet, active |-> TRUE]
     IN IF row.priceUsdc = InvalidNumeric
        THEN /\ calls' = [calls EXCEPT ![c] = Return(q, InvalidNumericError)]
             /\ UNCHANGED <<paywalls, nextPaywallId>>
        ELSE IF ~ paywalls_block_id_unique(paywalls, row)
        THEN /\ calls' = [calls EXCEPT ![c] = Return(q, BlockIdUniqueViolation)]
             /\ UNCHANGED <<paywalls, nextPaywallId>>
        ELSE /\ paywalls' = paywalls \cup {row}
             /\ nextPaywallId' = nextPaywallId + 1
             /\ calls' = [calls EXCEPT ![c] = Return([q EXCEPT !.existing = row], "")]
  /\ UNCHANGED <<regCalls, nonRegistryVars>>

\* the head of updatePaywall, deactivatePaywall and deletePaywall:
\* await getPaywallByBlockId(blockId) and the ownership check
OwnerCheck(in) ==
  LET existing == getPaywallByBlockId(paywalls, in.blockId)
  IN [q |-> [Begin(in) EXCEPT !.existing = existing],
      code |-> ownershipError(existing, in.ownerUserId)]

\* updatePaywall up to the update statement
updatePaywallHead(q) ==
  LET h == OwnerCheck(q)
      q1 == [q EXCEPT !.existing = h.q.existing]
  IN IF h.code # "" THEN Return(q1, h.code)
     ELSE IF q.priceUsdc # NoText /\ BelowMinimum(q.priceUsdc)
          THEN Return(q1, "INVALID_PRICE")
     ELSE IF /\ q.recipientWallet # NoAddr
             /\ ~ isValidEthereumAddress(q.recipientWallet)
          THEN Return(q1, "INVALID_WALLET")
     ELSE [q1 EXCEPT !.pc = "updateSet"]

\* a caller calls updatePaywall
updatePaywall(c) ==
  /\ CallStarts(c)
  /\ \E in \in RegistryCalls :
       /\ in.op = "update"
       /\ calls' = [calls EXCEPT ![c] = updatePaywallHead(Begin(in))]
  /\ regCalls' = regCalls + 1
  /\ UNCHANGED <<paywalls, nextPaywallId, nonRegistryVars>>

\* the row after update ... set {...updates}: absent fields are left alone
updatedRow(p, priceUsdc, recipientWallet) ==
  [p EXCEPT !.priceUsdc = IF priceUsdc # NoText THEN CastNumeric(priceUsdc) ELSE @,
            !.recipientWallet = Or(recipientWallet, @)]

\* updatePaywall: await db.update(paywalls).set(...).where(blockId).returning()
updatePaywallSet(c) ==
  /\ calls[c].pc = "updateSet"
  /\ LET q == calls[c]
         rows == {p \in paywalls : p.blockId = q.blockId}
     IN IF q.priceUsdc # NoText /\ CastNumeric(q.priceUsdc) = InvalidNumeric
        THEN /\ calls' = [calls EXCEPT ![c] = Return(q, InvalidNumericError)]
             /\ UNCHANGED paywalls
        ELSE /\ paywalls' = (paywalls \ rows)
                              \cup {updatedRow(p, q.priceUsdc, q.recipientWallet) : p \in rows}
             /\ calls' = [calls EXCEPT ![c] = Return(q, "")]
  /\ UNCHANGED <<nextPaywallId, regCalls, nonRegistryVars>>

\* deactivatePaywall up to the update statement
deactivatePaywall(c) ==
  /\ CallStarts(c)
  /\ \E in \in RegistryCalls :
       /\ in.op = "deactivate"
       /\ LET h == OwnerCheck(in)
          IN calls' = [calls EXCEPT ![c] =
               IF h.code # "" THEN Return(h.q, h.code)
               ELSE [h.q EXCEPT !.pc = "deactivateSet"]]
  /\ regCalls' = regCalls + 1
  /\ UNCHANGED <<paywalls, nextPaywallId, nonRegistryVars>>

\* deactivatePaywall: await db.update(paywalls).set({active: false}).where(blockId)
deactivatePaywallSet(c) ==
  /\ calls[c].pc = "deactivateSet"
  /\ LET q == calls[c]
         rows == {p \in paywalls : p.blockId = q.blockId}
     IN /\ paywalls' = (paywalls \ rows) \cup {[p EXCEPT !.active = FALSE] : p \in rows}
        /\ calls' = [calls EXCEPT ![c] = Return(q, "")]
  /\ UNCHANGED <<nextPaywallId, regCalls, nonRegistryVars>>

\* deletePaywall up to the delete statement
deletePaywall(c) ==
  /\ CallStarts(c)
  /\ \E in \in RegistryCalls :
       /\ in.op = "delete"
       /\ LET h == OwnerCheck(in)
          IN calls' = [calls EXCEPT ![c] =
               IF h.code # "" THEN Return(h.q, h.code)
               ELSE [h.q EXCEPT !.pc = "deleteRows"]]
  /\ regCalls' = regCalls + 1
  /\ UNCHANGED <<paywalls, nextPaywallId, nonRegistryVars>>

\* variant: access_grants rows go with the paywall of their block
access_grants_on_delete_cascade(grants, rows) ==
  {g \in grants : ~ \E p \in rows : p.blockId = g.blockId}

\* table access_grants after rows of paywalls were deleted: access_grants
\* refers to payments only, block_id is a plain column, so nothing changes
access_grants_on_delete(grants, rows) == grants

\* deletePaywall: await db.delete(paywalls).where(blockId).  The store
\* rejects the statement while a payment refers to a row it would delete.
deletePaywallRows(c) ==
  /\ calls[c].pc = "deleteRows"
  /\ LET q == calls[c]
         rows == {p \in paywalls : p.blockId = q.blockId}
     IN IF payments_paywall_id_paywalls_id_fk(payments, rows)
        THEN /\ paywalls' = paywalls \ rows
             /\ accessGrants' = access_grants_on_delete(accessGrants, rows)
             /\ calls' = [calls EXCEPT ![c] = Return(q, "")]
        ELSE /\ UNCHANGED <<paywalls, accessGrants>>
             /\ calls' = [calls EXCEPT ![c] = Return(q, PaywallFkViolation)]
  /\ UNCHANGED <<nextPaywallId, regCalls, payments, nextGrantId, reqs, adm, started,
                 adminCalls, libVars>>

\* variant: the select does not filter on active
selectActivePaywall_anyRow(pws, blockId) == {p \in pws : p.blockId = blockId}

\* the select of getBlockAccessStatus: where block_id = ? and active = true
selectActivePaywall(pws, blockId) == {p \in pws : p.blockId = blockId /\ p.active}

\* variant: the result of hasAccess is not used
Paywalled_open(paywall, walletHasAccess) ==
  [isPaywalled |-> TRUE, hasAccess |-> TRUE, priceUsdc |-> paywall.priceUsdc,
   recipientWallet |-> paywall.recipientWallet]

\* the BlockAccessStatus of a paywalled block
Paywalled(paywall, walletHasAccess) ==
  [isPaywalled |-> TRUE, hasAccess |-> walletHasAccess,
   priceUsdc |-> paywall.priceUsdc, recipientWallet |-> paywall.recipientWallet]

\* the BlockAccessStatus of a block without an active paywall
NotPaywalled == [NoStatus EXCEPT !.isPaywalled = FALSE, !.hasAccess = TRUE]

\* getBlockAccessStatus up to and including the select of the active paywall
getBlockAccessStatus(c) ==
  /\ CallStarts(c)
  /\ \E in \in RegistryCalls :
       /\ in.op = "status"
       /\ LET paywall == selectActivePaywall(paywalls, in.blockId)
              q == [Begin(in) EXCEPT !.existing =
                      IF paywall = {} THEN NullPaywall ELSE CHOOSE p \in paywall : TRUE]
          IN calls' = [calls EXCEPT ![c] =
               IF paywall = {} THEN [Return(q, "") EXCEPT !.status = NotPaywalled]
               ELSE IF in.walletAddress = NoAddr
                    THEN [Return(q, "") EXCEPT !.status = Paywalled(q.existing, FALSE)]
               ELSE [q EXCEPT !.pc = "statusHasAccess"]]
  /\ regCalls' = regCalls + 1
  /\ UNCHANGED <<paywalls, nextPaywallId, nonRegistryVars>>

\* getBlockAccessStatus: await hasAccess(blockId, walletAddress)
getBlockAccessStatusHasAccess(c) ==
  /\ calls[c].pc = "statusHasAccess"
  /\ LET q == calls[c]
         walletHasAccess == hasAccess(accessGrants, q.blockId, q.walletAddress)
     IN calls' = [calls EXCEPT ![c] =
          [Return(q, "") EXCEPT !.status = Paywalled(q.existing, walletHasAccess)]]
  /\ UNCHANGED <<paywalls, nextPaywallId, regCalls, nonRegistryVars>>

(***************************************************************************)
(* POST /paywall/configure, one action per awaited call.                   *)
(***************************************************************************)
\* the bodies considered, with the user of the token: block 40 has no
\* paywall and block 42 has one of user 1; user 0 is in no row of users; a
\* body may lack priceUsdc
ConfigureCalls ==
  {Call("configure", b, u, p, NoAddr, NoAddr) :
     b \in {PlainBlock, PaidBlock}, u \in UserIds,
     p \in {MIN_PRICE_USDC, <<"0", ".", "0", "5">>}}
  \cup {Call("configure", PlainBlock, 1, NoText, NoAddr, NoAddr),
         Call("configure", PlainBlock, 0, MIN_PRICE_USDC, NoAddr, NoAddr)}

\* what the upstream content API does when asked for the block: it names
\* the caller as the block's user, it names somebody else, or the call fails
UpstreamAnswers == {"owner", "other", "throws"}

\* variant: a failed upstream call counts as ownership
verifyBlockOwnership_failOpen(answer) == answer # "other"

\* verifyBlockOwnership: block.user?.id === arenaUserId, false when the
\* upstream call throws
verifyBlockOwnership(answer) == answer = "owner"

\* the route up to and including await getUserById(req.user.userId)
configure(c) ==
  /\ CallStarts(c)
  /\ \E in \in ConfigureCalls :
       calls' = [calls EXCEPT ![c] =
         IF in.priceUsdc = NoText THEN Return(Begin(in), "Invalid request")
         ELSE IF in.ownerUserId \notin UserIds THEN Return(Begin(in), "Unauthorized")
         ELSE [Begin(in) EXCEPT !.pc = "configureVerify"]]
  /\ regCalls' = regCalls + 1
  /\ UNCHANGED <<paywalls, nextPaywallId, nonRegistryVars>>

\* await verifyBlockOwnership(...): 403 unless it returned true
configureVerify(c) ==
  /\ calls[c].pc = "configureVerify"
  /\ \E answer \in UpstreamAnswers :
       LET q == [calls[c] EXCEPT !.upstream = answer]
       IN calls' = [calls EXCEPT ![c] =
            IF ~ verifyBlockOwnership(answer) THEN Return(q, "Forbidden")
            ELSE [q EXCEPT !.pc = "configureLookup"]]
  /\ UNCHANGED <<paywalls, nextPaywallId, regCalls, nonRegistryVars>>

\* await getPaywallByBlockId(blockId): update when there is a row, else create
configureLookup(c) ==
  /\ calls[c].pc = "configureLookup"
  /\ calls' = [calls EXCEPT ![c] =
       IF getPaywallByBlockId(paywalls, calls[c].blockId) # NullPaywall
       THEN [calls[c] EXCEPT !.pc = "configureUpdate"]
       ELSE [calls[c] EXCEPT !.pc = "configureCreate"]]
  /\ UNCHANGED <<paywalls, nextPaywallId, regCalls, nonRegistryVars>>

\* await updatePaywall(blockId, userId, {priceUsdc, recipientWallet}), up to
\* its update statement
configureUpdate(c) ==
  /\ calls[c].pc = "configureUpdate"
  /\ calls' = [calls EXCEPT ![c] = updatePaywallHead(calls[c])]
  /\ UNCHANGED <<paywalls, nextPaywallId, regCalls, nonRegistryVars>>

\* await createPaywall({blockId, ownerUserId, priceUsdc, recipientWallet}),
\* up to its insert statement
configureCreate(c) ==
  /\ calls[c].pc = "configureCreate"
  /\ calls' = [calls EXCEPT ![c] = createPaywallHead(calls[c])]
  /\ UNCHANGED <<paywalls, nextPaywallId, regCalls, nonRegistryVars>>

NextConfigure ==
  \/ \E c \in Callers : configure(c)
  \/ \E c \in Callers : configureVerify(c)
  \/ \E c \in Callers : configureLookup(c)
  \/ \E c \in Callers : configureUpdate(c)
  \/ \E c \in Callers : configureCreate(c)
  \/ \E c \in Callers : updatePaywallSet(c)
  \/ \E c \in Callers : createPaywallInsert(c)

\* the steps of the paywall services
NextRegistry ==
  \/ \E c \in Callers : createPaywall(c)
  \/ \E c \in Callers : createPaywallInsert(c)
  \/ \E c \in Callers : updatePaywall(c)
  \/ \E c \in Callers : updatePaywallSet(c)
  \/ \E c \in Callers : deactivatePaywall(c)
  \/ \E c \in Callers : deactivatePaywallSet(c)
  \/ \E c \in Callers : deletePaywall(c)
  \/ \E c \in Callers : deletePaywallRows(c)
  \/ \E c \in Callers : getBlockAccessStatus(c)
  \/ \E c \in Callers : getBlockAccessStatusHasAccess(c)

\* the store after wallet 0xa paid for block 42 and was also granted block 41
InitRegistry ==
  /\ paywalls = {ActivePaywall, InactivePaywall}
  /\ payments = <<SettledPayment(AddrA)>>
  /\ accessGrants = {newGrant(1, PaidBlock, AddrA, 1), newGrant(2, FreeBlock, AddrA, 0)}
  /\ nextGrantId = 3
  /\ nextPaywallId = 3
  /\ NoCallers

\* calls of the paywall services by two concurrent callers
SpecRegistry == InitRegistry /\ [][NextRegistry]_vars

\* requests to POST /paywall/configure by two concurrent clients
SpecConfigure == InitRegistry /\ [][NextConfigure]_vars

(***************************************************************************)
(* getPaywallsForBlocks: the batch lookup of the paywalls of a list of      *)
(* blocks.  reads counts the select statements the call has sent to the    *)
(* store.                                                                  *)
(***************************************************************************)
\* longest list of block ids looked up in one call
MaxBlockIds == 3

BlockIdLists ==
  UNION {[1..n -> {PlainBlock, FreeBlock, PaidBlock}] : n \in 0..MaxBlockIds}

\* the columns the selects of getPaywallsForBlocks return
lookupColumns(p) == [blockId |-> p.blockId, priceUsdc |-> p.priceUsdc, active |-> p.active]

\* Map.prototype.set(id, value)
mapSet(map, id, value) ==
  {e \in map : e.key # id} \cup {[key |-> id, value |-> value]}

\* everything but the state of the caller of getPaywallsForBlocks
nonLookupVars ==
  <<paywalls, payments, accessGrants, nextGrantId, reqs, adm, started, adminCalls,
    regVars, conv, x402>>

\* the call up to its first per-block select: an empty list returns an empty
\* map at once; otherwise the select of all active paywalls is sent and
\* answered, and its result is not used
getPaywallsForBlocks ==
  /\ lookup.pc = "idle"
  /\ \E blockIds \in BlockIdLists :
       IF Len(blockIds) = 0
       THEN lookup' = [lookup EXCEPT !.pc = "done"]
       ELSE lookup' = [lookup EXCEPT
              !.pc = "loop", !.blockIds = blockIds, !.i = 1, !.reads = @ + 1,
              !.results = {lookupColumns(p) : p \in {q \in paywalls : q.active}}]
  /\ UNCHANGED nonLookupVars

\* one turn of the loop: the select of the active paywall of blockIds[i]
\* with limit 1, and the entry of the map when a row came back
getPaywallsForBlocksSelect ==
  /\ lookup.pc = "loop"
  /\ LET id == lookup.blockIds[lookup.i]
         paywall == selectActivePaywall(paywalls, id)
     IN lookup' = [lookup EXCEPT
          !.reads = @ + 1,
          !.paywallMap =
            IF paywall # {}
            THEN LET row == CHOOSE p \in paywall : TRUE
                 IN mapSet(@, id, [priceUsdc |-> row.priceUsdc, active |-> row.active])
            ELSE @,
          !.i = @ + 1,
          !.pc = IF lookup.i = Len(lookup.blockIds) THEN "done" ELSE "loop"]
  /\ UNCHANGED nonLookupVars

NextLookup == getPaywallsForBlocks \/ getPaywallsForBlocksSelect

\* one call of getPaywallsForBlocks on the initial store
SpecLookup == Init /\ [][NextLookup]_vars

(***************************************************************************)
(* usdcToAtomic and atomicToUsdc on price texts.  A double is not          *)
(* represented bit by bit.  A double that parseFloat or a division by 10^6 *)
(* produced is the double nearest to a number of millionths and is written *)
(* [nan, micros]; a double that the product with 10^6 produced lies within *)
(* 1/2 of an integer and is written [nan, int, off], off telling on which  *)
(* side of the integer it lies.  Both hold for amounts below 2^51          *)
(* millionths (the numeric(10,6) column holds less than 10^10): the parse  *)
(* and the product each round to 53 bits, so the product of the double     *)
(* nearest to k / 10^6 with 10^6 differs from k by less than k * 2^-52.    *)
(***************************************************************************)
\* number of digits of the whole part of a price text
MaxWholeDigits == 1

\* digits the price texts are written with
PriceDigits == {"0", "1", "9"}

DigitStrings(n) == [1..n -> PriceDigits]

\* whole parts without leading zeros
WholeParts ==
  UNION {{w \in DigitStrings(n) : n > 1 => w[1] # "0"} : n \in 1..MaxWholeDigits}

\* price texts with at most PriceScale decimals: digits, or digits.digits
PriceStrings ==
  WholeParts \cup
  {w \o <<".">> \o f : w \in WholeParts, f \in UNION {DigitStrings(n) : n \in 1..PriceScale}}

\* side of the nearest integer on which a double lies: below, on it, above
Offsets == {-1, 0, 1}

\* x * 1_000_000 for a double x given in millionths: zero stays zero,
\* otherwise the rounded product may lie on either side of the integer
timesMillion(x, off) ==
  [nan |-> x.nan, int |-> x.micros, off |-> IF x.nan \/ x.micros = 0 THEN 0 ELSE off]

RECURSIVE decimalText(_)
\* the decimal digits of a natural number
decimalText(n) ==
  IF n < 10 THEN <<Digits[n + 1]>>
  ELSE decimalText(n \div 10) \o <<Digits[(n % 10) + 1]>>

NaNText == <<"N", "a", "N">>

\* variant: the digits of the integer part of the double (as Math.floor or
\* parseInt would give)
toFixed0_truncating(x) ==
  IF x.nan THEN NaNText
  ELSE decimalText(IF x.off < 0 THEN x.int - 1 ELSE x.int)

\* Number.prototype.toFixed(0) of a double near an integer: the integer n for
\* which n - x is closest to zero, in decimal digits
toFixed0(x) == IF x.nan THEN NaNText ELSE decimalText(x.int)

\* parseInt(atomic, 10) of a text without sign: its leading digits
parseInt(atomic) ==
  LET n == LeadingDigits(atomic)
  IN IF n = 0 THEN [nan |-> TRUE, int |-> 0]
     ELSE [nan |-> FALSE, int |-> DigitsValue(SubSeq(atomic, 1, n))]

\* x / 1_000_000 for an integer x: the double nearest to x millionths
divideByMillion(x) == [nan |-> x.nan, micros |-> x.int]

\* a text of n zeros
Zeros(n) == [i \in 1..n |-> "0"]

\* Number.prototype.toFixed(6) of a double given in millionths: the integer n
\* for which n / 10^6 - x is closest to zero, its digits padded with zeros to
\* PriceScale + 1 places, and a point before the last PriceScale
toFixed6(x) ==
  IF x.nan THEN NaNText
  ELSE LET m == decimalText(x.micros)
           padded == IF Len(m) <= PriceScale THEN Zeros(PriceScale + 1 - Len(m)) \o m ELSE m
           k == Len(padded) - PriceScale
       IN SubSeq(padded, 1, k) \o <<".">> \o SubSeq(padded, k + 1, Len(padded))

\* usdcToAtomic on a price text: (parseFloat(usdc) * 1_000_000).toFixed(0)
usdcToAtomicText(usdc, off) == toFixed0(timesMillion(parseFloat(usdc), off))

\* atomicToUsdc: (parseInt(atomic, 10) / 1_000_000).toFixed(6)
atomicToUsdc(atomic) == toFixed6(divideByMillion(parseInt(atomic)))

\* everything but the state of the caller of the conversions
nonConvVars ==
  <<paywalls, payments, accessGrants, nextGrantId, reqs, adm, started, adminCalls,
    regVars, lookup, x402>>

\* the call usdcToAtomic(usdc)
usdcToAtomicCall ==
  /\ conv.pc = "idle"
  /\ \E off \in Offsets :
       conv' = [conv EXCEPT
         !.pc = "atomic",
         !.product = timesMillion(parseFloat(conv.usdc), off),
         !.atomic = usdcToAtomicText(conv.usdc, off)]
  /\ UNCHANGED nonConvVars

\* the call atomicToUsdc(atomic) on the result of usdcToAtomic
atomicToUsdcCall ==
  /\ conv.pc = "atomic"
  /\ conv' = [conv EXCEPT !.pc = "done", !.back = atomicToUsdc(conv.atomic)]
  /\ UNCHANGED nonConvVars

NextConv == usdcToAtomicCall \/ atomicToUsdcCall

\* any price text is handed to usdcToAtomic
InitConv ==
  /\ paywalls = {ActivePaywall, InactivePaywall}
  /\ payments = << >>
  /\ accessGrants = {}
  /\ nextGrantId = 1
  /\ nextPaywallId = 3
  /\ NoServiceCallers
  /\ \E usdc \in PriceStrings : conv = [IdleConv EXCEPT !.usdc = usdc]

\* usdcToAtomic of a price text, then atomicToUsdc of the result
SpecConv == InitConv /\ [][NextConv]_vars

(***************************************************************************)
(* getX402Server: the singleton of the oracle client.  The async function  *)
(* passed to initializationPromise runs synchronously up to its await of   *)
(* x402Server.initialize(), so line 32 has assigned x402Server when the    *)
(* first call suspends.                                                    *)
(***************************************************************************)
\* number of calls of getX402Server over a behaviour
MaxServerCalls == 5

\* everything but the singleton and its callers
nonServerVars ==
  <<paywalls, payments, accessGrants, nextGrantId, reqs, adm, started, adminCalls,
    regVars, lookup, conv>>

\* what a caller is handed: the server, and whether its initialize() has
\* completed at that moment
serverReceived == IF x402.initialized THEN "initialized" ELSE "uninitialized"

\* a call up to its return or its await.  The module calls first, when it is
\* loaded; handlers call afterwards.
getX402Server(c) ==
  /\ x402.callers[c].pc = "idle"
  /\ x402.serverCalls < MaxServerCalls
  /\ IF c = "load" THEN x402.serverCalls = 0 ELSE x402.callers["load"].pc # "idle"
  /\ x402' =
       IF x402.x402Server # "null"
       THEN [x402 EXCEPT
              !.serverCalls = @ + 1,
              !.callers[c] = [pc |-> "returned", received |-> serverReceived]]
       ELSE IF x402.initializationPromise # "null"
       THEN [x402 EXCEPT !.serverCalls = @ + 1, !.callers[c].pc = "await"]
       ELSE [x402 EXCEPT
              !.serverCalls = @ + 1,
              !.x402Server = "constructed",
              !.constructed = @ + 1,
              !.initializationPromise = "pending",
              !.callers[c].pc = "await"]
  /\ UNCHANGED nonServerVars

\* x402Server.initialize() completes, or fails (it asks the facilitator for
\* the schemes it supports): the promise is fulfilled or rejected
initializeSettles ==
  /\ x402.initializationPromise = "pending"
  /\ \E ok \in BOOLEAN :
       x402' = [x402 EXCEPT
         !.initialized = ok,
         !.initializationPromise = IF ok THEN "fulfilled" ELSE "rejected"]
  /\ UNCHANGED nonServerVars

\* a caller suspended at await initializationPromise goes on: it returns
\* x402Server, or throws what the promise was rejected with
getX402ServerResume(c) ==
  /\ x402.callers[c].pc = "await"
  /\ x402.initializationPromise \in {"fulfilled", "rejected"}
  /\ x402' = [x402 EXCEPT !.callers[c] =
       IF x402.initializationPromise = "fulfilled"
       THEN [pc |-> "returned", received |-> serverReceived]
       ELSE [pc |-> "thrown", received |-> "none"]]
  /\ UNCHANGED nonServerVars

\* a handler that got the server or an error calls again with a later request
getX402ServerAgain(c) ==
  /\ c # "load"
  /\ x402.callers[c].pc \in {"returned", "thrown"}
  /\ x402.serverCalls < MaxServerCalls
  /\ x402' = [x402 EXCEPT !.callers[c] = IdleServerCaller]
  /\ UNCHANGED nonServerVars

NextServer ==
  \/ \E c \in ServerCallers : getX402Server(c)
  \/ initializeSettles
  \/ \E c \in ServerCallers : getX402ServerResume(c)
  \/ \E c \in ServerCallers : getX402ServerAgain(c)

\* the module is loaded and handlers call getX402Server
SpecServer == Init /\ [][NextServer]_vars

\* the steps of the HTTP requests
NextRequests ==
  \/ \E r \in Reqs : MwGetPaywall(r)
  \/ \E r \in Reqs : MwHasAccess(r)
  \/ \E r \in Reqs : PpRecordPayment(r)
  \/ \E r \in Reqs : PpVerify(r)
  \/ \E r \in Reqs : PpSettle(r)
  \/ \E r \in Reqs : PpFailPayment(r)
  \/ \E r \in Reqs : PpSettlePayment(r)
  \/ \E r \in Reqs : PpGrantSelect(r)
  \/ \E r \in Reqs : PpGrantInsert(r)

\* the steps of the administrative caller of the access ledger
NextAdmin ==
  \/ AdmGrantCall
  \/ AdmGrantSelect
  \/ AdmGrantInsert
  \/ LedgerRevoke

Next == NextRequests \/ AdmRevoke

\* requests, with administrative revocations in between
Spec == Init /\ [][Next]_vars

\* requests only
SpecRequests == Init /\ [][NextRequests]_vars

\* the steps of a handler once its request has arrived
HandlerStep(r) ==
  \/ MwHasAccess(r)
  \/ PpRecordPayment(r)
  \/ PpVerify(r)
  \/ PpSettle(r)
  \/ PpOracleHang(r)
  \/ PpFailPayment(r)
  \/ PpSettlePayment(r)
  \/ PpGrantSelect(r)
  \/ PpGrantInsert(r)

NextOracleHang == NextRequests \/ \E r \in Reqs : PpOracleHang(r)

\* requests against an oracle that may leave a call unanswered.  Fairness:
\* the event loop runs every continuation that is ready, every store
\* statement completes, and every oracle call is either answered or left
\* unanswered for good; arrivals of requests are not forced.
SpecOracleHang ==
  Init /\ [][NextOracleHang]_vars /\ \A r \in Reqs : WF_vars(HandlerStep(r))

\* the store after two payments were settled and their grants revoked: the
\* payments that LedgerPaymentIds refers to exist
InitLedger ==
  /\ paywalls = {ActivePaywall, InactivePaywall}
  /\ payments = <<SettledPayment(AddrA), SettledPayment(AddrB)>>
  /\ accessGrants = {}
  /\ nextGrantId = 3
  /\ nextPaywallId = 3
  /\ NoCallers

\* calls of the access ledger by one sequential caller
SpecLedger == InitLedger /\ [][NextAdmin]_vars

\* number of calls (requests, ledger calls, paywall service calls) over a
\* behaviour in which all three kinds of callers are at work
MaxFrameCalls == 2

\* a call begins: a request arrives, the ledger's caller calls grantAccess or
\* revokeAccess, the owner's client calls a paywall service
FrameStarts ==
  \/ MwGetPaywall("r1")
  \/ AdmGrantCall
  \/ LedgerRevoke
  \/ updatePaywall("c1")
  \/ deactivatePaywall("c1")
  \/ deletePaywall("c1")

\* a call that has begun takes its next step
FrameContinues ==
  \/ MwHasAccess("r1")
  \/ PpRecordPayment("r1")
  \/ PpVerify("r1")
  \/ PpSettle("r1")
  \/ PpFailPayment("r1")
  \/ PpSettlePayment("r1")
  \/ PpGrantSelect("r1")
  \/ PpGrantInsert("r1")
  \/ AdmGrantSelect
  \/ AdmGrantInsert
  \/ updatePaywallSet("c1")
  \/ deactivatePaywallSet("c1")
  \/ deletePaywallRows("c1")

NextFrame ==
  \/ started + adminCalls + regCalls < MaxFrameCalls /\ FrameStarts
  \/ FrameContinues

\* one request handler, the caller of the ledger and one caller of the
\* paywall services, running concurrently on a store that holds grants
SpecFrame == InitRegistry /\ [][NextFrame]_vars

\* no statement of the ledger's caller or of a paywall service is pending
StoreAtRest ==
  /\ adm.pc \in {"idle", "done"}
  /\ calls["c1"].pc \notin {"updateSet", "deactivateSet", "deleteRows"}

\* a request has arrived or a status has been asked for
Probing == started > 0 \/ calls["c1"].op = "status"

\* the ledger's caller and the owner's client bring the store into some
\* state; then it is left alone
DecisionPrepares ==
  \/ AdmGrantCall
  \/ LedgerRevoke
  \/ updatePaywall("c1")
  \/ deactivatePaywall("c1")
  \/ deletePaywall("c1")

DecisionContinues ==
  \/ AdmGrantSelect
  \/ AdmGrantInsert
  \/ updatePaywallSet("c1")
  \/ deactivatePaywallSet("c1")
  \/ deletePaywallRows("c1")
  \/ MwHasAccess("r1")
  \/ getBlockAccessStatusHasAccess("c1")

\* number of calls that prepare the store
MaxPrepCalls == 1

NextDecision ==
  \/ ~ Probing /\ adminCalls + regCalls < MaxPrepCalls /\ DecisionPrepares
  \/ StoreAtRest /\ MwGetPaywall("r1")
  \/ StoreAtRest /\ getBlockAccessStatus("c1")
  \/ DecisionContinues

\* the middleware and getBlockAccessStatus asked about one state of the
\* store, in either order and interleaved
SpecDecision == InitRegistry /\ [][NextDecision]_vars

(***************************************************************************)
(* Properties.                                                             *)
(***************************************************************************)
Terminal == {"settled", "failed"}

\* request slot r takes a step that ends its handler
Returns(r) == reqs'[r].pc = "done" /\ reqs'[r] # reqs[r]

\* the store holds a grant of the pair, written out on the rows
GrantRowExists(grants, blockId, lowerWallet) ==
  \E g \in grants : g.blockId = blockId /\ g.payerWallet = lowerWallet

\* C1: a PaymentRecord's status changes only pending -> settled or
\* pending -> failed; a settled or failed record is never written again.
C1_StatusWrittenOnce ==
  [][\A i \in DOMAIN payments :
       /\ i \in DOMAIN payments'
       /\ payments'[i].status # payments[i].status =>
            payments[i].status = "pending" /\ payments'[i].status \in Terminal]_vars

\* C2: when processPayment has returned for a request that created a
\* PaymentRecord, the record is settled or failed, never pending, whatever
\* the oracle answered.
C2_NoPendingAtReturn ==
  \A r \in Reqs :
    reqs[r].pc = "done" /\ reqs[r].paymentId # 0 =>
      /\ reqs[r].paymentId \in DOMAIN payments
      /\ payments[reqs[r].paymentId].status \in Terminal

\* C2 witness: a call returned after the oracle's settle step threw
C2_Witness ==
  \E r \in Reqs :
    /\ reqs[r].pc = "done" /\ reqs[r].paymentId # 0
    /\ reqs[r].settleResult.kind = "throw"
    /\ payments[reqs[r].paymentId].status = "failed"

\* C3: whenever the oracle's settle step reported success, processPayment
\* returns success and at its return the PaymentRecord is settled with the
\* oracle's transaction reference and a grant exists for block and payer.
C3_SettleSuccessIsGranted ==
  [][\A r \in Reqs :
       Returns(r) /\ reqs'[r].settleResult.kind = "success" =>
         /\ reqs'[r].result.success
         /\ payments'[reqs'[r].paymentId].status = "settled"
         /\ payments'[reqs'[r].paymentId].txHash = reqs'[r].settleResult.transaction
         /\ GrantRowExists(accessGrants', reqs'[r].blockId,
                           toLowerCase(reqs'[r].actualPayer))]_vars

\* C4: access_grants never holds two rows for one (blockId, payerWallet).
C4_OneGrantPerPair ==
  \A g1 \in accessGrants, g2 \in accessGrants :
    g1.blockId = g2.blockId /\ g1.payerWallet = g2.payerWallet => g1 = g2

\* C4 witness: an insert of grantAccess met a row of its pair, placed by a
\* concurrent call after this call's select
C4_Witness ==
  /\ \E r \in Reqs : reqs[r].grant = "threw"
  /\ \E g \in accessGrants : g.blockId = PaidBlock

\* C5: a grantAccess call that loses the race for its pair returns the
\* existing grant and raises no error.
C5_RaceLoserReturnsExisting ==
  /\ \A r \in Reqs : reqs[r].grant # "threw"
  /\ adm.ret # "threw"

\* C6: for a block with an active paywall the middleware calls next only if
\* a grant exists for the request's wallet address or the proof of this
\* request was verified and settled in this request; otherwise it answers
\* 402 or an error.
C6_NextOnlyWithGrantOrSettledProof ==
  [][\A r \in Reqs :
       Returns(r) /\ reqs'[r].paywall.active =>
         /\ reqs'[r].outcome \in {"next", "402", "400", "500"}
         /\ reqs'[r].outcome = "next" =>
              \/ /\ reqs'[r].wallet # NoAddr
                 /\ GrantRowExists(accessGrants, reqs'[r].blockId,
                                   toLowerCase(reqs'[r].wallet))
              \/ /\ reqs'[r].header.kind = "proof"
                 /\ reqs'[r].verifyResult.kind = "valid"
                 /\ reqs'[r].settleResult.kind = "success"
                 /\ reqs'[r].result.success]_vars

\* C6 witness: a request without a grant was let through on its settled proof
C6_Witness ==
  \E r \in Reqs :
    /\ reqs[r].pc = "done" /\ reqs[r].paywall.active
    /\ reqs[r].outcome = "next" /\ ~ reqs[r].hasAccessResult
    /\ reqs[r].result.success

\* the proof of the request fails local validation, read off the header
LocallyInvalid(q) ==
  \/ q.header.kind = "malformed"
  \/ /\ q.header.kind = "proof"
     /\ \/ q.header.amount # usdcToAtomic(q.paywall.priceUsdc)
        \/ toLowerCase(q.header.payTo) # toLowerCase(q.paywall.recipientWallet)

\* C7: when processPayment meets a proof that fails local validation it
\* returns a failure, creates no PaymentRecord and no AccessGrant, and calls
\* neither verify nor settle.
C7_LocalRejectionHasNoEffect ==
  [][\A r \in Reqs :
       reqs[r].pc = "recordPayment" /\ LocallyInvalid(reqs[r]) /\ reqs'[r] # reqs[r] =>
         /\ reqs'[r].pc = "done" /\ ~ reqs'[r].result.success
         /\ reqs'[r].outcome = "400"
         /\ payments' = payments
         /\ accessGrants' = accessGrants
         /\ reqs'[r].paymentId = 0
         /\ reqs'[r].verifyCalls = 0 /\ reqs'[r].settleCalls = 0]_vars

\* C7 witness: a proof with the wrong amount was rejected while another
\* request's record is in the store
C7_Witness ==
  \E r \in Reqs :
    /\ reqs[r].pc = "done" /\ reqs[r].header = WrongAmount
    /\ reqs[r].result.error = "Payment amount mismatch"
    /\ Len(payments) = 1

\* C8: while verify or settle is being called, and ever after, the pending
\* PaymentRecord of the attempt is in the store.
C8_RecordBeforeOracle ==
  \A r \in Reqs :
    reqs[r].pc \in {"verify", "settle"} \/ reqs[r].verifyCalls > 0 \/ reqs[r].settleCalls > 0 =>
      /\ reqs[r].paymentId \in DOMAIN payments
      /\ payments[reqs[r].paymentId].paywallId = reqs[r].paywall.id
      /\ reqs[r].pc = "verify" => payments[reqs[r].paymentId].status = "pending"
      /\ reqs[r].trace[1] = "recordPayment"

\* C8 witness: the verify call of an attempt is outstanding
C8_Witness ==
  \E r \in Reqs : reqs[r].pc = "verify" /\ payments[reqs[r].paymentId].status = "pending"

\* C9: when verify reports the proof invalid, settle is never called and no
\* grant is created for the attempt, and at return the record is failed
\* without settlement reference and the failure carries the oracle's reason.
C9_VerifyInvalid ==
  \A r \in Reqs :
    reqs[r].verifyResult.kind = "invalid" =>
      /\ reqs[r].settleCalls = 0
      /\ reqs[r].grant = "none"
      /\ ~ \E g \in accessGrants : g.paymentId = reqs[r].paymentId
      /\ reqs[r].pc \in {"failPayment", "done"}
      /\ reqs[r].pc = "done" =>
           /\ payments[reqs[r].paymentId].status = "failed"
           /\ payments[reqs[r].paymentId].txHash = ""
           /\ payments[reqs[r].paymentId].settledAt = 0
           /\ ~ reqs[r].result.success
           /\ reqs[r].outcome = "400"
           /\ reqs[r].verifyResult.invalidReason # "" =>
                reqs[r].result.error = reqs[r].verifyResult.invalidReason

\* C9 witness: a call returned after verify reported invalid_signature
C9_Witness ==
  \E r \in Reqs :
    /\ reqs[r].pc = "done"
    /\ reqs[r].verifyResult.kind = "invalid"
    /\ reqs[r].verifyResult.invalidReason = "invalid_signature"

\* the calls of a settlement that releases content, in order
ReleaseOrder ==
  <<"recordPayment", "verifyPayment", "settlePayment", "markSettled", "grantAccess">>

\* content was released on the proof of this request
ReleasedOnProof(q) ==
  /\ q.verifyResult.kind = "valid" /\ q.settleResult.kind = "success"
  /\ q.trace = ReleaseOrder
  /\ q.grant \in {"created", "existing"}

C11_RepeatRequestPasses ==
  [][\A r \in Reqs :
       Returns(r) /\ reqs'[r].paidBefore /\ reqs'[r].header.kind = "none" =>
         /\ reqs'[r].outcome = "next"
         /\ payments' = payments]_vars

\* C12: once a grant exists for a block and a payer address, no request that
\* arrives later for that block calls the oracle's settle step for that payer
\* address or gets a settled PaymentRecord naming it.
C12_NoSecondCharge ==
  \A r \in Reqs :
    reqs[r].payerGranted =>
      /\ reqs[r].settleCalls = 0
      /\ reqs[r].paymentId # 0 => payments[reqs[r].paymentId].status # "settled"

\* C13: when the oracle never answers a verify or settle call, processPayment
\* still returns a failure and the PaymentRecord of the attempt reaches failed.
C13_UnansweredOracleCallFails ==
  \A r \in Reqs :
    reqs[r].pc = "hung" ~>
      /\ reqs[r].pc = "done" /\ ~ reqs[r].result.success
      /\ reqs[r].paymentId \in DOMAIN payments
      /\ payments[reqs[r].paymentId].status = "failed"

\* C14: two grantAccess calls in sequence for the same block and payer
\* address (in any letter case) leave exactly one row of the pair; the second
\* call returns the record the first returned, and the stored paymentId stays
\* the first call's even when the second passes a different one.
C14_GrantTwiceIsIdempotent ==
  /\ adm.pc = "done" /\ adm.op = "grant"
  /\ adm.prev.ret \in {"created", "existing"}
  /\ adm.prev.blockId = adm.blockId
  /\ toLowerCase(adm.prev.wallet) = toLowerCase(adm.wallet)
  => /\ adm.ret = "existing"
     /\ adm.row = adm.prev.row
     /\ {g \in accessGrants : /\ g.blockId = adm.blockId
                              /\ g.payerWallet = toLowerCase(adm.wallet)}
          = {adm.prev.row}

\* C14 witness: the second call passed the address in another letter case and
\* a different paymentId, and returned the first call's record
C14_Witness ==
  /\ adm.pc = "done" /\ adm.op = "grant" /\ adm.prev.ret = "created"
  /\ adm.prev.blockId = adm.blockId
  /\ adm.prev.wallet # adm.wallet
  /\ toLowerCase(adm.prev.wallet) = toLowerCase(adm.wallet)
  /\ adm.paymentId # adm.prev.paymentId
  /\ adm.row.paymentId = adm.prev.paymentId

\* caller c begins a call of the service op in this step
Starts(c, op) ==
  /\ CallStarts(c) /\ regCalls' = regCalls + 1
  /\ calls'[c].op = op

\* C15: for a block with no active paywall (no config, or a config with
\* active = false) getBlockAccessStatus returns isPaywalled = false and
\* hasAccess = true, for every wallet address or none and whatever grants exist.
C15_UnpaywalledBlockIsOpen ==
  [][\A c \in Callers :
       /\ Starts(c, "status")
       /\ \/ getPaywallByBlockId(paywalls, calls'[c].blockId) = NullPaywall
          \/ ~ getPaywallByBlockId(paywalls, calls'[c].blockId).active
       => /\ calls'[c].pc = "done"
          /\ ~ calls'[c].status.isPaywalled
          /\ calls'[c].status.hasAccess]_vars

\* C15 witness: the status of block 41 (deactivated paywall) was answered for
\* a wallet address without a grant
C15_Witness ==
  \E c \in Callers :
    /\ calls[c].pc = "done" /\ calls[c].op = "status"
    /\ calls[c].blockId = FreeBlock /\ calls[c].walletAddress = AddrB
    /\ calls[c].status.hasAccess

\* C16: for a block with an active paywall getBlockAccessStatus returns
\* isPaywalled = true with the paywall's price and recipient; hasAccess is
\* true exactly when a grant exists for the block and the lowercased address,
\* and false when no address is given.
C16_PaywalledBlockStatus ==
  [][\A c \in Callers :
       /\ Starts(c, "status") /\ getPaywallByBlockId(paywalls, calls'[c].blockId).active
          => LET pw == getPaywallByBlockId(paywalls, calls'[c].blockId)
             IN IF calls'[c].walletAddress = NoAddr
                THEN /\ calls'[c].pc = "done"
                     /\ calls'[c].status =
                          [isPaywalled |-> TRUE, hasAccess |-> FALSE,
                           priceUsdc |-> pw.priceUsdc,
                           recipientWallet |-> pw.recipientWallet]
                ELSE calls'[c].pc = "statusHasAccess" /\ calls'[c].existing = pw
       /\ calls[c].pc = "statusHasAccess" /\ calls'[c] # calls[c]
          => /\ calls'[c].pc = "done"
             /\ calls'[c].status =
                  [isPaywalled |-> TRUE,
                   hasAccess |-> GrantRowExists(accessGrants, calls[c].blockId,
                                                toLowerCase(calls[c].walletAddress)),
                   priceUsdc |-> calls[c].existing.priceUsdc,
                   recipientWallet |-> calls[c].existing.recipientWallet]]_vars

\* C16 witness: the status of the paid block was answered for the address
\* 0xA, whose grant is stored under 0xa, after the paywall had been changed
C16_Witness ==
  \E c \in Callers :
    /\ calls[c].pc = "done" /\ calls[c].op = "status"
    /\ calls[c].blockId = PaidBlock /\ calls[c].walletAddress = AddrA
    /\ calls[c].status.isPaywalled /\ calls[c].status.hasAccess
    /\ calls[c].status.recipientWallet = HexWallet("b")

\* C17: updatePaywall, deactivatePaywall and deletePaywall fail with NOT_FOUND
\* exactly when the block has no config and with FORBIDDEN exactly when it has
\* one whose owner is not the requester; the routes answer the two with
\* different statuses, and in both cases the table is left as it was.
C17_NotFoundAndForbidden ==
  [][\A c \in Callers :
       Starts(c, "update") \/ Starts(c, "deactivate") \/ Starts(c, "delete") =>
         LET rows == {p \in paywalls : p.blockId = calls'[c].blockId}
             code == calls'[c].code
         IN /\ code = "NOT_FOUND" <=> rows = {}
            /\ code = "FORBIDDEN" <=>
                 rows # {} /\ \A p \in rows : p.ownerUserId # calls'[c].ownerUserId
            /\ code \in {"NOT_FOUND", "FORBIDDEN"} =>
                 /\ calls'[c].pc = "done"
                 /\ paywalls' = paywalls
                 /\ httpStatus(code) = IF code = "NOT_FOUND" THEN 404 ELSE 403]_vars

\* C17 witness: an update found no config for block 41 after its config had
\* been deleted
C17_Witness ==
  \E c \in Callers :
    /\ calls[c].pc = "done" /\ calls[c].op = "update"
    /\ calls[c].blockId = FreeBlock /\ calls[c].code = "NOT_FOUND"

\* C18: every persisted PaywallConfig has a price of at least the minimum 0.01.
C18_PersistedPriceAtLeastMinimum ==
  \A p \in paywalls :
    /\ p.priceUsdc # NaNPrice
    /\ p.priceUsdc[1] * Pow10(PriceScale) + p.priceUsdc[2]
         >= parseFloat(MIN_PRICE_USDC).micros

\* C19: at most one PaywallConfig exists per blockId.
C19_OnePaywallPerBlock ==
  \A p1 \in paywalls, p2 \in paywalls : p1.blockId = p2.blockId => p1 = p2

\* C19 witness: of two concurrent createPaywall calls for one block the second
\* insert was turned down by the store
C19_Witness ==
  /\ \E c \in Callers : calls[c].code = BlockIdUniqueViolation
  /\ \E p \in paywalls : p.blockId = PlainBlock

\* C20: deletePaywall called by the owner removes the config even when
\* PaymentRecords refer to it: afterwards getPaywallByBlockId returns absent
\* and the payments are all still there.
C20_OwnerDeleteRemovesConfig ==
  [][\A c \in Callers :
       calls[c].pc = "deleteRows" /\ calls'[c] # calls[c] =>
         /\ calls'[c].code = ""
         /\ getPaywallByBlockId(paywalls', calls[c].blockId) = NullPaywall
         /\ Len(payments') = Len(payments)]_vars

\* C21: getPaywallsForBlocks answers a lookup of any number of block ids
\* with a single bulk fetch: a call that has returned has sent at most one
\* select to the store, however long its list of block ids is.
C21_SingleBulkFetch ==
  lookup.pc = "done" => lookup.reads <= 1

\* the whole part and the decimals of a price text
WholePart(p) == SubSeq(p, 1, LeadingDigits(p))
Decimals(p) == SubSeq(p, LeadingDigits(p) + 2, Len(p))

\* the decimals of a price text filled up with zeros to PriceScale places
SixDecimals(p) == Decimals(p) \o Zeros(PriceScale - Len(Decimals(p)))

RECURSIVE StripZeros(_)
\* a text of digits without its leading zeros (a single 0 stays)
StripZeros(d) == IF Len(d) > 1 /\ d[1] = "0" THEN StripZeros(Tail(d)) ELSE d

C23_SharedInitialization ==
  /\ x402.constructed <= 1
  /\ \A c \in ServerCallers :
       x402.callers[c].pc = "returned" => x402.callers[c].received = "initialized"

\* C24: processPayment does not retry.  A call writes at most one
\* PaymentRecord (a record is added only by a call that has none yet, one
\* at a time, under a new id and without touching the records there are),
\* calls the oracle's verify at most once and its settle at most once; and a
\* record marked failed is never written again, so a proof submitted again
\* after a failed attempt gets a new record.
C24_NoRetry ==
  [][ /\ \A r \in Reqs : reqs'[r].verifyCalls <= 1 /\ reqs'[r].settleCalls <= 1
      /\ Len(payments') # Len(payments) =>
           /\ Len(payments') = Len(payments) + 1
           /\ SubSeq(payments', 1, Len(payments)) = payments
           /\ \E r \in Reqs :
                reqs[r].paymentId = 0 /\ reqs'[r].paymentId = Len(payments')
      /\ \A r \in Reqs :
           reqs[r].paymentId # 0 /\ reqs'[r].pc # "idle" /\ reqs[r].pc # "done" =>
             reqs'[r].paymentId = reqs[r].paymentId
      /\ \A i \in DOMAIN payments :
           payments[i].status = "failed" => payments'[i] = payments[i]
    ]_vars

\* slot r1 served a request whose proof failed and then the same request
\* again: the second attempt verified and settled once each and its record
\* is a new one, next to the failed record of the first
C24_Witness ==
  /\ reqs["r2"] = IdleReq
  /\ reqs["r1"].pc = "done" /\ reqs["r1"].result.success
  /\ reqs["r1"].header = GoodProofB /\ reqs["r1"].wallet = NoAddr
  /\ reqs["r1"].verifyCalls = 1 /\ reqs["r1"].settleCalls = 1
  /\ reqs["r1"].paymentId = 2
  /\ Len(payments) = 2
  /\ payments[1].status = "failed" /\ payments[2].status = "settled"
  /\ payments[1].payerWallet = payments[2].payerWallet

\* addresses to ask hasAccess about: the addresses in use, in both letter cases
ProbeWallets ==
  {AddrA, toLowerCase(AddrA), AddrB, toLowerCase(AddrB), Unknown,
   <<"U", "n", "k", "n", "o", "w", "n">>}

\* C25: in every state that grantAccess and revokeAccess calls lead to,
\* hasAccess is false for the absent (empty) address, hasAccess gives the same
\* answer for two addresses that differ only in letter case (each gets the
\* answer of their common lowercase spelling), and every address stored in
\* access_grants and in payments is lowercase.
C25_CaseInsensitiveAccess ==
  /\ \A i \in DOMAIN BlockIds :
       /\ ~ hasAccess(accessGrants, BlockIds[i], NoAddr)
       /\ \A a \in ProbeWallets :
            hasAccess(accessGrants, BlockIds[i], a)
              = hasAccess(accessGrants, BlockIds[i], toLowerCase(a))
  /\ \A g \in accessGrants : g.payerWallet = toLowerCase(g.payerWallet)
  /\ \A i \in DOMAIN payments : payments[i].payerWallet = toLowerCase(payments[i].payerWallet)

\* a request whose proof names the payer 0xB has paid: the payment and the
\* grant carry 0xb and hasAccess answers true for both spellings; the grant
\* of 0xa was revoked and hasAccess answers false for it
C25_Witness ==
  /\ \E r \in Reqs :
       /\ reqs[r].pc = "done" /\ reqs[r].grant = "created"
       /\ reqs[r].payerWallet = AddrB /\ reqs[r].actualPayer = AddrB
       /\ payments[reqs[r].paymentId].payerWallet = toLowerCase(AddrB)
  /\ AddrB # toLowerCase(AddrB)
  /\ hasAccess(accessGrants, PaidBlock, AddrB)
  /\ hasAccess(accessGrants, PaidBlock, toLowerCase(AddrB))
  /\ adm.op = "revoke" /\ adm.ret = "true"
  /\ ~ hasAccess(accessGrants, PaidBlock, AddrA)

\* the caller of the ledger makes a revokeAccess call in this step
Revokes == adminCalls' # adminCalls /\ adm'.op = "revoke"

\* C26: revokeAccess(blockId, address) removes the grant of the pair when
\* there is one and returns true exactly when a row was removed; after the
\* call hasAccess is false for the pair, a revoke of the pair that follows a
\* revoke of the same pair returns false, and the grants of all other pairs
\* are as they were.
C26_RevokeRemovesThePair ==
  [][ Revokes =>
        LET b == adm'.blockId
            w == adm'.wallet
            ofPair(g) == g.blockId = b /\ g.payerWallet = toLowerCase(w)
        IN /\ (adm'.ret = "true") = (accessGrants' # accessGrants)
           /\ (adm'.ret = "true") = hasAccess(accessGrants, b, w)
           /\ adm'.ret \in {"true", "false"}
           /\ ~ hasAccess(accessGrants', b, w)
           /\ accessGrants' = {g \in accessGrants : ~ ofPair(g)}
           /\ ( /\ adm.pc = "done" /\ adm.op = "revoke" /\ adm.blockId = b
                /\ toLowerCase(adm.wallet) = toLowerCase(w) )
              => adm'.ret = "false"
    ]_vars

\* the grant of 0xa was revoked through the spelling 0xA: the call returned
\* true, the pair has no access, and the grant of 0xb is still there
C26_Witness ==
  /\ adm.pc = "done" /\ adm.op = "revoke" /\ adm.ret = "true"
  /\ adm.wallet = AddrA
  /\ ~ hasAccess(accessGrants, PaidBlock, AddrA)
  /\ hasAccess(accessGrants, PaidBlock, AddrB)

\* C27: an AccessGrant that exists is never modified, and it is removed only
\* by a revokeAccess call for its block and address: no step of a settlement
\* attempt, of a repeated grantAccess or of updatePaywall, deactivatePaywall
\* or deletePaywall changes or removes it.
C27_GrantsLeftAlone ==
  [][ \A g \in accessGrants :
        /\ \A h \in accessGrants' : h.id = g.id => h = g
        /\ g \notin accessGrants' =>
             /\ Revokes
             /\ adm'.blockId = g.blockId /\ toLowerCase(adm'.wallet) = g.payerWallet
    ]_vars

\* the paywall of block 41 was deleted and a request settled a payment for
\* block 42: the grants 0xa held for both blocks before are as they were
C27_Witness ==
  /\ calls["c1"].pc = "done" /\ calls["c1"].op = "delete" /\ calls["c1"].code = ""
  /\ getPaywallByBlockId(paywalls, FreeBlock) = NullPaywall
  /\ reqs["r1"].pc = "done" /\ reqs["r1"].result.success /\ reqs["r1"].grant = "created"
  /\ newGrant(1, PaidBlock, AddrA, 1) \in accessGrants
  /\ newGrant(2, FreeBlock, AddrA, 0) \in accessGrants

\* C28: in every reachable state a PaymentRecord carries a settlement
\* reference (txHash) and a settledAt time if and only if its status is
\* settled; pending and failed records carry neither.
C28_SettlementRefIffSettled ==
  \A i \in DOMAIN payments :
    IF payments[i].status = "settled"
    THEN payments[i].txHash # "" /\ payments[i].settledAt # 0
    ELSE payments[i].txHash = "" /\ payments[i].settledAt = 0

\* C29: when processPayment has returned success, the grant it wrote is for
\* the resolved payer address: the address on the attempt's PaymentRecord,
\* which is also the payer of the result (letter case aside) and, when the
\* request supplied an address, that address.
C29_GrantForResolvedPayer ==
  \A r \in Reqs :
    reqs[r].pc = "done" /\ reqs[r].result.success =>
      LET recorded == payments[reqs[r].result.paymentId].payerWallet
      IN /\ GrantRowExists(accessGrants, reqs[r].blockId, recorded)
         /\ toLowerCase(reqs[r].result.payer) = recorded
         /\ reqs[r].walletAddress # NoAddr => recorded = reqs[r].walletAddress

\* C30: the payer address on the PaymentRecord of a request is the address
\* supplied with the request when there is one, otherwise the payer named in
\* the proof payload, otherwise the placeholder "unknown" (addresses are
\* stored in lowercase); a payer named in the proof never takes the place of
\* a supplied address.
C30_RecordedPayer ==
  \A r \in Reqs :
    reqs[r].paymentId # 0 =>
      payments[reqs[r].paymentId].payerWallet =
        IF reqs[r].wallet # NoAddr THEN toLowerCase(reqs[r].wallet)
        ELSE IF reqs[r].header.payer # NoAddr THEN toLowerCase(reqs[r].header.payer)
        ELSE Unknown

\* a request supplied 0xA with a proof that names the payer 0xB, and the
\* oracle named 0xB as well: its record carries 0xa
C30_Witness ==
  \E r \in Reqs :
    /\ reqs[r].pc = "done" /\ reqs[r].result.success
    /\ reqs[r].wallet = AddrA /\ reqs[r].header.payer = AddrB
    /\ reqs[r].actualPayer = AddrB
    /\ payments[reqs[r].paymentId].payerWallet = toLowerCase(AddrA)

\* the decoded proof of a request agrees with the paywall the request read:
\* accepted amount equal to the price in atomic units, accepted payTo equal
\* to the recipient up to letter case
ProofAgrees(q) ==
  /\ q.header.amount = usdcToAtomic(q.paywall.priceUsdc)
  /\ toLowerCase(q.header.payTo) = toLowerCase(q.paywall.recipientWallet)

\* processPayment has gone past its local checks for the request
PastLocalChecks(q) ==
  /\ q.header.kind = "proof"
  /\ q.pc \notin {"idle", "hasAccess", "recordPayment"}
  /\ ~ (q.pc = "done" /\ q.outcome = "next" /\ ~ q.result.success)

\* C31: a decoded proof goes on to recordPayment and verify exactly when its
\* accepted amount equals the price converted to atomic units and its
\* accepted payTo equals the recipient ignoring letter case; every other
\* decoded proof is returned as an amount or recipient mismatch.
C31_ExactAmountAndRecipient ==
  \A r \in Reqs :
    PastLocalChecks(reqs[r]) =>
      /\ reqs[r].paymentId # 0 <=> ProofAgrees(reqs[r])
      /\ ~ ProofAgrees(reqs[r]) =>
           /\ reqs[r].pc = "done" /\ reqs[r].outcome = "400"
           /\ reqs[r].verifyCalls = 0
           /\ reqs[r].result.error \in
                {"Payment amount mismatch", "Payment recipient mismatch"}

\* C31 witness: a proof naming the recipient in another letter case reached
\* verify while a proof naming another recipient had been turned down
C31_Witness ==
  \E r, o \in Reqs :
    /\ reqs[r].header = GoodProof /\ reqs[r].paywall.recipientWallet # GoodProof.payTo
    /\ reqs[r].paymentId # 0 /\ reqs[r].verifyCalls = 1
    /\ reqs[o].header = WrongPayTo /\ reqs[o].pc = "done"
    /\ reqs[o].result.error = "Payment recipient mismatch"

\* C32: the amount written on a PaymentRecord is the price its paywall has
\* in the store when the record is inserted, also when an updatePaywall of
\* the owner changed the price while the request was in flight.
C32_RecordedAmountIsCurrentPrice ==
  [][Len(payments') > Len(payments) =>
       LET record == payments'[Len(payments')]
       IN \A p \in paywalls :
            p.id = record.paywallId => p.priceUsdc = record.amountUsdc]_vars

\* the request of slot r is let through in this step with nothing written
\* and no oracle call made for it
PassesUntouched(r) ==
  /\ reqs'[r].pc = "done" /\ reqs'[r].outcome = "next"
  /\ payments' = payments /\ accessGrants' = accessGrants
  /\ reqs'[r].paymentId = 0 /\ reqs'[r].grant = "none"
  /\ reqs'[r].verifyCalls = 0 /\ reqs'[r].settleCalls = 0
  /\ reqs'[r].trace = << >>

\* C33: a request for a block without an active paywall, and a request whose
\* wallet address holds a grant for the block when the middleware asks, is
\* passed on as it is, with or without a proof header: no PaymentRecord, no
\* oracle call and no grant.
C33_PassThroughLeavesNoTrace ==
  [][\A r \in Reqs :
       /\ reqs[r].pc \in {"idle", "done"} /\ reqs'[r] # reqs[r] /\ started' # started
          /\ (\A p \in paywalls : p.blockId = reqs'[r].blockId => ~ p.active)
          => PassesUntouched(r)
       /\ reqs[r].pc = "hasAccess" /\ reqs'[r] # reqs[r]
          /\ (\E g \in accessGrants :
                /\ g.blockId = reqs[r].blockId
                /\ g.payerWallet = toLowerCase(reqs[r].wallet))
          => PassesUntouched(r)]_vars

\* C33 witness: a request that carried a proof was passed on on the grant
\* of its wallet address; the store holds the payment and the grants it
\* started with
C33_Witness ==
  /\ reqs["r1"].pc = "done" /\ reqs["r1"].outcome = "next"
  /\ reqs["r1"].header = GoodProofB /\ reqs["r1"].hasAccessResult
  /\ Len(payments) = 1
  /\ \A g \in accessGrants : g.id < 3

\* the middleware has answered a request without a proof and
\* getBlockAccessStatus has answered for the same block and address
SameQuestion ==
  /\ reqs["r1"].pc = "done" /\ reqs["r1"].header.kind = "none"
  /\ calls["c1"].pc = "done" /\ calls["c1"].op = "status"
  /\ calls["c1"].blockId = reqs["r1"].blockId
  /\ getWalletFromRequest(calls["c1"].walletAddress) = reqs["r1"].walletAddress

C35_DuplicateCreateIsAlreadyExists ==
  [][\A c \in Callers :
       /\ calls'[c] # calls[c]
       /\ calls'[c].op = "create" /\ calls'[c].pc = "done"
       /\ CastNumeric(calls'[c].priceUsdc) # InvalidNumeric
       /\ \E p \in paywalls : p.blockId = calls'[c].blockId
       => /\ paywalls' = paywalls
          /\ calls'[c].code \in
               {"ALREADY_EXISTS", "INVALID_PRICE", "NO_WALLET", "INVALID_WALLET"}]_vars

\* the owner's call of a paywall service, of the given operation, returns in
\* this step (a call of somebody else ends with NOT_FOUND or FORBIDDEN)
OwnerCallReturns(op) ==
  /\ calls'["c1"] # calls["c1"]
  /\ calls'["c1"].op = op /\ calls'["c1"].pc = "done"
  /\ calls'["c1"].code \notin {"NOT_FOUND", "FORBIDDEN"}

\* the owner's deactivatePaywall or deletePaywall for the block has returned
Removed(blockId) ==
  /\ calls["c1"].pc = "done" /\ calls["c1"].op \in {"deactivate", "delete"}
  /\ calls["c1"].code \notin {"NOT_FOUND", "FORBIDDEN"}
  /\ calls["c1"].blockId = blockId

\* C36: after the owner's deactivatePaywall the config is still returned by
\* getPaywallByBlockId, with active = false and every other field as before;
\* after the owner's deletePaywall getPaywallByBlockId returns null; and a
\* request that arrives after either of them is not answered 402.
C36_DeactivateKeepsDeleteRemoves ==
  [][/\ OwnerCallReturns("deactivate") =>
          LET before == getPaywallByBlockId(paywalls, calls'["c1"].blockId)
          IN getPaywallByBlockId(paywalls', calls'["c1"].blockId)
               = [before EXCEPT !.active = FALSE]
     /\ OwnerCallReturns("delete") =>
          getPaywallByBlockId(paywalls', calls'["c1"].blockId) = NullPaywall
     /\ started' # started /\ Removed(reqs'["r1"].blockId) =>
          reqs'["r1"].pc = "done" /\ reqs'["r1"].outcome = "next"]_vars

\* C37: POST /paywall/configure writes to the paywalls table only in a
\* request whose upstream ownership check returned true, and a request whose
\* check named another owner or failed is answered 403 with the table left
\* as it is.
C37_ConfigureOnlyForVerifiedOwner ==
  [][\A c \in Callers :
       /\ calls'[c] # calls[c] /\ calls'[c].op = "configure" /\ paywalls' # paywalls
          => calls[c].upstream = "owner"
       /\ calls[c].pc = "configureVerify" /\ calls'[c] # calls[c]
          /\ calls'[c].upstream \in {"other", "throws"}
          => /\ calls'[c].pc = "done" /\ httpStatus(calls'[c].code) = 403
             /\ paywalls' = paywalls]_vars

\* C37 witness: one request created the paywall of block 40 after its check
\* returned true, and another was answered 403 after the upstream call failed
C37_Witness ==
  /\ \E p \in paywalls : p.blockId = PlainBlock
  /\ \E c \in Callers :
       /\ calls[c].op = "configure" /\ calls[c].upstream = "owner"
       /\ calls[c].pc = "done" /\ calls[c].code = "" /\ calls[c].blockId = PlainBlock
  /\ \E c \in Callers :
       /\ calls[c].op = "configure" /\ calls[c].upstream = "throws"
       /\ calls[c].pc = "done" /\ calls[c].code = "Forbidden"

\* C38: every AccessGrant that references a payment references a
\* PaymentRecord whose status is settled.
C38_GrantedPaymentIsSettled ==
  \A g \in accessGrants :
    g.paymentId # 0 =>
      /\ g.paymentId \in DOMAIN payments
      /\ payments[g.paymentId].status = "settled"

\* C38 witness: a grant refers to a payment while the payment of another
\* attempt is marked failed
C38_Witness ==
  /\ \E g \in accessGrants : g.paymentId # 0
  /\ \E i \in DOMAIN payments : payments[i].status = "failed"

\* C39: no AccessGrant is written for the placeholder "unknown", so the
\* access check of a request that names "unknown" as its wallet address
\* finds no grant for any block.
C39_NoGrantForPlaceholder ==
  /\ \A g \in accessGrants : g.payerWallet # toLowerCase(Unknown)
  /\ \A i \in DOMAIN BlockIds :
       ~ hasAccess(accessGrants, BlockIds[i], getWalletFromRequest(Unknown))

====
